---- MODULE Spec2Model ----
(***************************************************************************)
(* RustyBASIC: the driver (rustybasic-driver), the parser (rustybasic-     *)
(* parser), the semantic analyzer (rustybasic-sema) and the control-flow   *)
(* lowering of the code generator (rustybasic-codegen), as state machines  *)
(* over a source text or a Program drawn from bounded sets.                *)
(***************************************************************************)
EXTENDS Integers, Sequences, FiniteSets, TLC

VARIABLES
    files,          \* the file system: the text of each file, by its path
    visited,        \* the HashSet of canonical paths of resolve_includes
    frames,         \* the calls of resolve_includes that have not returned
    source,         \* the source text main read, as its sequence of lexemes
    tokens,         \* the Vec<Token> tokenize returned
    command,        \* cli.command
    diagnostics,    \* the messages main emitted to stderr
    previous,       \* the SemaResult of an earlier analyze(&program), if any
    cursor,         \* Parser.pos, the parsing loops that are running, the outcome
    program,        \* the Program handed to analyze / compile
    pass,           \* position of analyze / compile / the generated code
    idx,            \* index of the next statement or definition in the pass
    variables,      \* SemanticAnalyzer.variables
    labels,         \* SemanticAnalyzer.labels
    goto_targets,   \* SemanticAnalyzer.goto_targets
    gosub_targets,  \* SemanticAnalyzer.gosub_targets
    has_gosub,      \* SemanticAnalyzer.has_gosub
    subs,           \* SemanticAnalyzer.subs
    functions,      \* SemanticAnalyzer.functions
    types,          \* SemanticAnalyzer.types
    constants,      \* SemanticAnalyzer.constants
    scope_stack,    \* SemanticAnalyzer.scope_stack
    errors,         \* SemanticAnalyzer.errors
    codegen,        \* the Codegen: its module (basic blocks), builder and fields
    pc,             \* the basic block the generated program is about to run
    gosub_return_idx,   \* run time value of the gosub_return_idx slot
    call_stack      \* return blocks of the GOSUBs not yet returned from

semaVars == <<variables, labels, goto_targets, gosub_targets, has_gosub,
              subs, functions, types, constants, scope_stack, errors>>

genVars == <<codegen, pc, gosub_return_idx, call_stack>>

includeVars == <<files, visited, frames>>

srcVars == <<includeVars, source, tokens, command, diagnostics, previous, cursor>>

vars == <<srcVars, program, pass, idx, semaVars, genVars>>

(***************************************************************************)
(* AST (rustybasic-parser/src/ast.rs)                                      *)
(***************************************************************************)

\* A name is the identifier text with its sigil, as the lexer delivers it.
Name(base, sigil) == [base |-> base, sigil |-> sigil]
NoName == Name("", "")

\* QBType; any other string is UserType(that name).
BuiltinQBTypes ==
    {"Integer", "Long", "Single", "Double", "String", "FunctionPtr", "Inferred"}

\* impl From<&QBType> for VarType
VarTypeOf(qb) ==
    CASE qb \in {"Integer", "Long"} -> "Integer"
      [] qb \in {"Single", "Double", "Inferred"} -> "Float"
      [] qb = "String" -> "String"
      [] OTHER -> "Integer"

\* Parser::expect_variable: the type a variable token carries.
SigilType(sigil) ==
    CASE sigil = "%" -> "Integer"
      [] sigil = "$" -> "String"
      [] sigil = "&" -> "Long"
      [] sigil = "!" -> "Single"
      [] sigil = "#" -> "Double"
      [] OTHER -> "Inferred"

\* Expr: every expression is a record of the same shape.
\* The value of a literal is kept for string literals only, as the
\* sequence of its characters.
Expr(k, name, var_type, op, args) ==
    [k |-> k, name |-> name, var_type |-> var_type, op |-> op, args |-> args,
     value |-> <<>>]
IntLiteral == Expr("IntLiteral", NoName, "", "", <<>>)
FloatLiteral == Expr("FloatLiteral", NoName, "", "", <<>>)
StringLiteral == Expr("StringLiteral", NoName, "", "", <<>>)
StringLiteralOf(value) == [StringLiteral EXCEPT !.value = value]
Variable(name) == Expr("Variable", name, SigilType(name.sigil), "", <<>>)
BinaryOp(op, l, r) == Expr("BinaryOp", NoName, "", op, <<l, r>>)
UnaryOp(op, e) == Expr("UnaryOp", NoName, "", op, <<e>>)
FnCall(name, args) == Expr("FnCall", name, "", "", args)

\* Statement: every statement is a record of the same shape.
Statement0 ==
    [k |-> "", name |-> NoName, var_type |-> "", expr |-> <<>>, exprs |-> <<>>,
     target |-> "", body |-> <<>>, clauses |-> <<>>, else_body |-> <<>>,
     pre |-> <<>>, post |-> <<>>]
Let(name, e) ==
    [Statement0 EXCEPT !.k = "Let", !.name = name,
                       !.var_type = SigilType(name.sigil), !.expr = <<e>>]
Dim(name, var_type, dimensions) ==
    [Statement0 EXCEPT !.k = "Dim", !.name = name, !.var_type = var_type,
                       !.exprs = dimensions]
Input(name) ==
    [Statement0 EXCEPT !.k = "Input", !.name = name,
                       !.var_type = SigilType(name.sigil)]
LineInput(name) == [Statement0 EXCEPT !.k = "LineInput", !.name = name]
PrintStmt(items) == [Statement0 EXCEPT !.k = "Print", !.exprs = items]
Clause(tests, body) == [tests |-> tests, body |-> body]
If(cond, then_body, else_if_clauses, else_body) ==
    [Statement0 EXCEPT !.k = "If", !.expr = <<cond>>, !.body = then_body,
                       !.clauses = else_if_clauses, !.else_body = else_body]
For(var, from, to, body) ==
    [Statement0 EXCEPT !.k = "For", !.name = var, !.exprs = <<from, to>>,
                       !.body = body]
DoLoop(pre, post, body) ==
    [Statement0 EXCEPT !.k = "DoLoop", !.pre = pre, !.post = post, !.body = body]
While(cond, body) ==
    [Statement0 EXCEPT !.k = "While", !.expr = <<cond>>, !.body = body]
SelectCase(e, cases, else_body) ==
    [Statement0 EXCEPT !.k = "SelectCase", !.expr = <<e>>, !.clauses = cases,
                       !.else_body = else_body]
Goto(target) == [Statement0 EXCEPT !.k = "Goto", !.target = target]
Gosub(target) == [Statement0 EXCEPT !.k = "Gosub", !.target = target]
Label(name) == [Statement0 EXCEPT !.k = "Label", !.target = name]
CallSub(name, args) ==
    [Statement0 EXCEPT !.k = "CallSub", !.name = name, !.exprs = args]
Return == [Statement0 EXCEPT !.k = "Return"]
End == [Statement0 EXCEPT !.k = "End"]
ExitFor == [Statement0 EXCEPT !.k = "ExitFor"]
ExitDo == [Statement0 EXCEPT !.k = "ExitDo"]
ExitSub == [Statement0 EXCEPT !.k = "ExitSub"]
ExitFunction == [Statement0 EXCEPT !.k = "ExitFunction"]
ArrayAssign(name, indices, e) ==
    [Statement0 EXCEPT !.k = "ArrayAssign", !.name = name,
                       !.var_type = SigilType(name.sigil), !.exprs = indices,
                       !.expr = <<e>>]

Param(name, param_type) == [name |-> name, param_type |-> param_type]
SubDef(name, params, body) ==
    [name |-> name, params |-> params, return_type |-> "", body |-> body]
FunctionDef(name, params, return_type, body) ==
    [name |-> name, params |-> params, return_type |-> return_type, body |-> body]
TypeField(name, field_type) == [name |-> name, field_type |-> field_type]
TypeDef(name, fields) == [name |-> name, fields |-> fields]
Program(body, ss, fs, ts) ==
    [body |-> body, subs |-> ss, functions |-> fs, types |-> ts]

(***************************************************************************)
(* Lexer (rustybasic-lexer; its source is outside the repository tree, so   *)
(* tokenize follows the scanning rules and failures of the design          *)
(* document).  The source text is the sequence of its lexemes: words       *)
(* (letters with an optional sigil), numbers, punctuation, quoted strings, *)
(* interpolated strings and line ends.  The text of a string is the        *)
(* sequence of its characters; the text of a template is a sequence of     *)
(* lexemes in which { and } stand for themselves.                          *)
(***************************************************************************)

\* the largest line number and integer literal of a source text
MaxLine == 20

Lexeme(k, text, sigil) ==
    [k |-> k, text |-> text, sigil |-> sigil, chars |-> <<>>, template |-> <<>>]
Word(text) == Lexeme("word", text, "")
SigilWord(text, sigil) == Lexeme("word", text, sigil)
Number(text) == Lexeme("number", text, "")
Symbol(text) == Lexeme("symbol", text, "")
EndOfLine == Lexeme("newline", "", "")
Quoted(chars) == [Lexeme("string", "", "") EXCEPT !.chars = chars]
Interpolated(template) == [Lexeme("template", "", "") EXCEPT !.template = template]
\* a " or $" that no " closes before the end of the text
Unterminated(k) == Lexeme(k, "", "")

\* Token: its TokenKind and what the kind carries
Token(k) ==
    [k |-> k, name |-> NoName, n |-> 0, value |-> <<>>, template |-> <<>>]
NoToken == Token("None")

\* identifier text is upper-cased before the keyword table is consulted
UpperCase ==
    [print |-> "PRINT", goto |-> "GOTO", x |-> "X", n |-> "N", a |-> "A",
     include |-> "INCLUDE", Include |-> "INCLUDE"]
to_uppercase(text) == IF text \in DOMAIN UpperCase THEN UpperCase[text] ELSE text

Keywords ==
    ("PRINT" :> "Print") @@ ("LET" :> "Let") @@ ("GOTO" :> "Goto")
    @@ ("GOSUB" :> "Gosub") @@ ("RETURN" :> "Return") @@ ("END" :> "End")
    @@ ("SUB" :> "Sub") @@ ("FUNCTION" :> "Function") @@ ("AS" :> "As")
    @@ ("INTEGER" :> "IntegerType") @@ ("STRING" :> "StringType")
    @@ ("AND" :> "And") @@ ("OR" :> "Or") @@ ("XOR" :> "Xor")
    @@ ("NOT" :> "Not") @@ ("MOD" :> "Mod")

\* operators and punctuation
SymbolKind(text) ==
    CASE text = "+" -> "Plus"  [] text = "-" -> "Minus"
      [] text = "*" -> "Star"  [] text = "/" -> "Slash"
      [] text = "\\" -> "Backslash" [] text = "^" -> "Caret"
      [] text = "=" -> "Eq"    [] text = "<>" -> "Neq"
      [] text = "<" -> "Lt"    [] text = ">" -> "Gt"
      [] text = "<=" -> "Le"   [] text = ">=" -> "Ge"
      [] text = "(" -> "LParen" [] text = ")" -> "RParen"
      [] text = "," -> "Comma" [] text = ";" -> "Semicolon"
      [] text = ":" -> "Colon"
      [] OTHER -> ""

\* the kind of an identifier token, by its sigil
IdentKind(sigil) ==
    CASE sigil = "%" -> "IntIdent"
      [] sigil = "$" -> "StringIdent"
      [] sigil = "&" -> "LongIdent"
      [] sigil = "!" -> "SingleIdent"
      [] sigil = "#" -> "DoubleIdent"
      [] OTHER -> "Ident"
IdentKinds ==
    {"Ident", "IntIdent", "StringIdent", "LongIdent", "SingleIdent", "DoubleIdent"}

LexError(message) == [Token("Error") EXCEPT !.value = <<message>>]

\* the token of one lexeme, or the failure
scan(lexeme) ==
    CASE lexeme.k = "newline" -> Token("Newline")
      [] lexeme.k = "word" ->
            IF lexeme.sigil = "" /\ to_uppercase(lexeme.text) \in DOMAIN Keywords
            THEN Token(Keywords[to_uppercase(lexeme.text)])
            ELSE [Token(IdentKind(lexeme.sigil)) EXCEPT
                     !.name = Name(to_uppercase(lexeme.text), lexeme.sigil)]
      [] lexeme.k = "number" ->
            IF \E n \in 0..MaxLine : ToString(n) = lexeme.text
            THEN [Token("IntLiteral") EXCEPT
                     !.n = CHOOSE n \in 0..MaxLine : ToString(n) = lexeme.text]
            ELSE LexError("malformed numeric literal")
      [] lexeme.k = "symbol" ->
            IF SymbolKind(lexeme.text) # "" THEN Token(SymbolKind(lexeme.text))
            ELSE LexError("unexpected character")
      [] lexeme.k = "string" ->
            [Token("StringLiteral") EXCEPT !.value = lexeme.chars]
      [] lexeme.k = "template" ->
            [Token("InterpolatedString") EXCEPT !.template = lexeme.template]
      [] lexeme.k = "unterminated string" ->
            LexError("unterminated string literal")
      [] OTHER -> LexError("unterminated interpolated string")

RECURSIVE tokenize_from(_, _, _)
tokenize_from(text, i, out) ==
    IF i > Len(text) THEN [ok |-> TRUE, tokens |-> out, message |-> ""]
    ELSE IF scan(text[i]).k = "Error"
         THEN [ok |-> FALSE, tokens |-> <<>>, message |-> scan(text[i]).value[1]]
         ELSE tokenize_from(text, i + 1, Append(out, scan(text[i])))

\* tokenize: the tokens in source order, or the first failure
tokenize(text) == tokenize_from(text, 1, <<>>)

(***************************************************************************)
(* Parser (rustybasic-parser/src/lib.rs): the statements PRINT, LET, GOTO, *)
(* GOSUB, RETURN, END, assignments and calls, labels, SUB and FUNCTION     *)
(* definitions, and expressions.  A parser is its tokens and its position; *)
(* a method returns the parser after the call with its ParseResult.        *)
(***************************************************************************)

\* Parser::new
NewParser(toks) == [tokens |-> toks, pos |-> 0]

Ok(p, v) == [ok |-> TRUE, p |-> p, v |-> v, message |-> ""]
\* Parser::error, returned
Err(p, message) == [ok |-> FALSE, p |-> p, v |-> <<>>, message |-> message]

\* self.tokens.get(self.pos + offset)
peek_ahead(p, offset) ==
    IF p.pos + offset < Len(p.tokens) THEN p.tokens[p.pos + offset + 1] ELSE NoToken
peek(p) == peek_ahead(p, 0)
peek_kind(p) == peek(p).k
peek_ahead_kind(p, offset) == peek_ahead(p, offset).k
at_end(p) == p.pos >= Len(p.tokens)
at_newline(p) == peek_kind(p) \in {"Newline", "None"}
advance(p) == IF p.pos < Len(p.tokens) THEN [p EXCEPT !.pos = @ + 1] ELSE p
check(p, kind) == peek_kind(p) = kind

RECURSIVE eat_newline(_)
eat_newline(p) ==
    IF peek_kind(p) = "Newline" THEN eat_newline(advance(p)) ELSE p

RECURSIVE skip_blank_lines(_)
skip_blank_lines(p) ==
    IF peek_kind(p) \in {"Newline", "Rem", "Comment"}
    THEN skip_blank_lines(advance(p))
    ELSE p

check_end_keyword_ahead(p, keyword) ==
    peek_kind(p) = "End" /\ peek_ahead_kind(p, 1) = keyword

expect_ident_name(p) ==
    IF peek_kind(p) = "Ident" THEN Ok(advance(p), peek(p).name)
    ELSE Err(p, "expected identifier")

\* expect_variable: the name and the QBType of its token kind
expect_variable(p) ==
    IF peek_kind(p) \in IdentKinds
    THEN Ok(advance(p), [name |-> peek(p).name,
                         qb_type |-> SigilType(peek(p).name.sigil)])
    ELSE Err(p, "expected variable name")

parse_type_name(p) ==
    CASE peek_kind(p) = "IntegerType" -> Ok(advance(p), "Integer")
      [] peek_kind(p) = "LongType" -> Ok(advance(p), "Long")
      [] peek_kind(p) = "SingleType" -> Ok(advance(p), "Single")
      [] peek_kind(p) = "DoubleType" -> Ok(advance(p), "Double")
      [] peek_kind(p) = "StringType" -> Ok(advance(p), "String")
      [] peek_kind(p) = "Function" -> Ok(advance(p), "FunctionPtr")
      [] peek_kind(p) = "Ident" -> Ok(advance(p), peek(p).name.base)
      [] OTHER -> Err(p, "expected type name")

\* infix_binding_power as it would be with ^ grouping left to right
infix_binding_power_left(op) ==
    CASE op \in {"Or", "Xor"} -> <<1, 2>>
      [] op = "And" -> <<3, 4>>
      [] op \in {"Eq", "Neq", "Lt", "Gt", "Le", "Ge"} -> <<5, 6>>
      [] op \in {"Add", "Sub"} -> <<7, 8>>
      [] op \in {"Mul", "Div", "IntDiv", "Mod"} -> <<9, 10>>
      [] OTHER -> <<11, 12>>

\* infix_binding_power: (l_bp, r_bp)
infix_binding_power(op) ==
    CASE op \in {"Or", "Xor"} -> <<1, 2>>
      [] op = "And" -> <<3, 4>>
      [] op \in {"Eq", "Neq", "Lt", "Gt", "Le", "Ge"} -> <<5, 6>>
      [] op \in {"Add", "Sub"} -> <<7, 8>>
      [] op \in {"Mul", "Div", "IntDiv", "Mod"} -> <<9, 10>>
      [] OTHER -> <<12, 11>>

prefix_bp == 13

\* peek_binop: the BinOp of the current token, "" for None
peek_binop(p) ==
    CASE peek_kind(p) = "Plus" -> "Add"
      [] peek_kind(p) = "Minus" -> "Sub"
      [] peek_kind(p) = "Star" -> "Mul"
      [] peek_kind(p) = "Slash" -> "Div"
      [] peek_kind(p) = "Backslash" -> "IntDiv"
      [] peek_kind(p) \in {"Mod", "Eq", "Neq", "Lt", "Gt", "Le", "Ge",
                           "And", "Or", "Xor"} -> peek_kind(p)
      [] peek_kind(p) = "Caret" -> "Pow"
      [] OTHER -> ""

\* the parts of an interpolated string as they would be if a literal part
\* were pushed whether or not it has text
flush_always(parts, current) == Append(parts, StringLiteralOf(current))

\* `if !current.is_empty() { parts.push(StringLiteral(current)) }`
flush(parts, current) ==
    IF current # <<>> THEN Append(parts, StringLiteralOf(current)) ELSE parts

\* "Chain parts with BinaryOp::Add"
RECURSIVE chain_parts_from(_, _, _)
chain_parts_from(result, parts, i) ==
    IF i > Len(parts) THEN result
    ELSE chain_parts_from(BinaryOp("Add", result, parts[i]), parts, i + 1)
chain_parts(parts) ==
    IF parts = <<>> THEN StringLiteralOf(<<>>)
    ELSE chain_parts_from(parts[1], parts, 2)

IsBrace(lexeme, text) == lexeme.k = "symbol" /\ lexeme.text = text

\* "Collect expression text until '}'": the position of the next } after i,
\* or past the end of the template
closing(template, i) ==
    LET found == {j \in (i + 1)..Len(template) : IsBrace(template[j], "}")}
    IN IF found = {} THEN Len(template) + 1
       ELSE CHOOSE j \in found : \A k \in found : j <= k

RECURSIVE parse_expr_bp(_, _)
RECURSIVE infix_loop(_, _)
RECURSIVE infix_rhs(_, _, _, _)
RECURSIVE parse_prefix(_)
RECURSIVE prefix_operand(_, _)
RECURSIVE parenthesized(_)
RECURSIVE parse_atom(_)
RECURSIVE parse_ident_expr(_, _)
RECURSIVE parse_arguments(_, _)
RECURSIVE next_argument(_, _)
RECURSIVE call_expr(_, _)
RECURSIVE interpolate(_, _, _, _)
RECURSIVE placeholder(_, _, _, _, _)
RECURSIVE placeholder_expr(_, _, _, _, _)

parse_expr(p) == parse_expr_bp(p, 0)

\* parse_expr_bp: the prefix expression, then the loop over the operators
parse_expr_bp(p, min_bp) == infix_loop(parse_prefix(p), min_bp)

\* one turn of the loop of parse_expr_bp, r.v being lhs
infix_loop(r, min_bp) ==
    IF ~r.ok THEN r
    ELSE IF peek_binop(r.p) = "" THEN r
    ELSE IF infix_binding_power(peek_binop(r.p))[1] < min_bp THEN r
    ELSE infix_rhs(parse_expr_bp(advance(r.p),
                                 infix_binding_power(peek_binop(r.p))[2]),
                   r.v, peek_binop(r.p), min_bp)

infix_rhs(r, lhs, op, min_bp) ==
    IF ~r.ok THEN r
    ELSE infix_loop(Ok(r.p, BinaryOp(op, lhs, r.v)), min_bp)

parse_prefix(p) ==
    CASE peek_kind(p) = "Minus" ->
            prefix_operand(parse_expr_bp(advance(p), prefix_bp), "Neg")
      [] peek_kind(p) = "Not" ->
            prefix_operand(parse_expr_bp(advance(p), prefix_bp), "Not")
      [] peek_kind(p) = "LParen" -> parenthesized(parse_expr(advance(p)))
      [] OTHER -> parse_atom(p)

prefix_operand(r, op) == IF ~r.ok THEN r ELSE Ok(r.p, UnaryOp(op, r.v))

parenthesized(r) ==
    IF ~r.ok THEN r
    ELSE IF check(r.p, "RParen") THEN Ok(advance(r.p), r.v)
    ELSE Err(r.p, "expected )")

\* parse_atom; the value of a numeric literal is not kept
parse_atom(p) ==
    CASE peek_kind(p) = "IntLiteral" -> Ok(advance(p), IntLiteral)
      [] peek_kind(p) = "FloatLiteral" -> Ok(advance(p), FloatLiteral)
      [] peek_kind(p) = "StringLiteral" ->
            Ok(advance(p), StringLiteralOf(peek(p).value))
      [] peek_kind(p) \in IdentKinds -> parse_ident_expr(advance(p), peek(p).name)
      [] peek_kind(p) = "InterpolatedString" ->
            interpolate(advance(p), peek(p).template, 1, [parts |-> <<>>, current |-> <<>>])
      [] OTHER -> Err(p, "expected expression")

\* the desugaring of an interpolated string, from character i on; acc is
\* `parts` and `current`
interpolate(p, template, i, acc) ==
    IF i > Len(template) THEN Ok(p, chain_parts(flush(acc.parts, acc.current)))
    ELSE IF IsBrace(template[i], "{")
    THEN placeholder(p, template, closing(template, i),
                     flush(acc.parts, acc.current),
                     tokenize(SubSeq(template, i + 1, closing(template, i) - 1)))
    ELSE interpolate(p, template, i + 1,
                     [acc EXCEPT !.current = Append(@, template[i].text)])

\* the expression text up to the } at position close, lexed, then parsed by
\* a parser of its own
placeholder(p, template, close, parts, lexed) ==
    IF ~lexed.ok THEN Err(p, "error in interpolation")
    ELSE placeholder_expr(p, template, close, parts,
                          parse_expr(NewParser(lexed.tokens)))

placeholder_expr(p, template, close, parts, r) ==
    IF ~r.ok THEN Err(p, r.message)
    ELSE interpolate(p, template, close + 1,
                     [parts |-> Append(parts, FnCall(Name("STR", "$"), <<r.v>>)),
                      current |-> <<>>])

parse_ident_expr(p, name) ==
    IF check(p, "LParen") THEN call_expr(parse_arguments(advance(p), <<>>), name)
    ELSE Ok(p, Variable(name))

\* the argument list after the (, up to the )
parse_arguments(p, args) ==
    IF check(p, "RParen") THEN Ok(p, args)
    ELSE next_argument(parse_expr(p), args)

next_argument(r, args) ==
    IF ~r.ok THEN r
    ELSE IF check(r.p, "Comma")
    THEN next_argument(parse_expr(advance(r.p)), Append(args, r.v))
    ELSE Ok(r.p, Append(args, r.v))

call_expr(r, name) ==
    IF ~r.ok THEN r
    ELSE IF check(r.p, "RParen") THEN Ok(advance(r.p), FnCall(name, r.v))
    ELSE Err(r.p, "expected )")

expect_label_target(p) ==
    CASE peek_kind(p) = "IntLiteral" -> Ok(advance(p), ToString(peek(p).n))
      [] peek_kind(p) = "Ident" -> Ok(advance(p), peek(p).name.base)
      [] OTHER -> Err(p, "expected label name or line number")

\* parse_goto, parse_gosub: r is the result of expect_label_target
parse_goto(r) == IF ~r.ok THEN r ELSE Ok(r.p, Goto(r.v))
parse_gosub(r) == IF ~r.ok THEN r ELSE Ok(r.p, Gosub(r.v))

\* parse_let, after LET: the variable, =, the expression
let_expr(r, name) == IF ~r.ok THEN r ELSE Ok(r.p, Let(name, r.v))
let_eq(r) ==
    IF ~r.ok THEN r
    ELSE IF check(r.p, "Eq") THEN let_expr(parse_expr(advance(r.p)), r.v.name)
    ELSE Err(r.p, "expected =")
parse_let(p) == let_eq(expect_variable(advance(p)))

\* parse_print, after PRINT: the items up to the end of the line; of the
\* PrintItems the expressions are kept
RECURSIVE parse_print_items(_, _)
RECURSIVE print_item(_, _)
parse_print_items(p, items) ==
    IF at_newline(p) \/ at_end(p) \/ check(p, "Colon") \/ check(p, "Else")
    THEN Ok(p, PrintStmt(items))
    ELSE IF check(p, "Semicolon") \/ check(p, "Comma")
    THEN parse_print_items(advance(p), items)
    ELSE print_item(parse_expr(p), items)
print_item(r, items) ==
    IF ~r.ok THEN r ELSE parse_print_items(r.p, Append(items, r.v))
parse_print(p) == parse_print_items(advance(p), <<>>)

\* parse_ident_statement, after `name(indices)`: an element assignment or a
\* call with parentheses
array_assign(r, name, indices) ==
    IF ~r.ok THEN r ELSE Ok(r.p, ArrayAssign(name, indices, r.v))
ident_indices(r, name) ==
    IF ~r.ok THEN r
    ELSE IF ~check(r.p, "RParen") THEN Err(r.p, "expected )")
    ELSE IF check(advance(r.p), "Eq")
    THEN array_assign(parse_expr(advance(advance(r.p))), name, r.v)
    ELSE Ok(advance(r.p), CallSub(name, r.v))

\* parse_ident_statement, after `name` without parentheses: an assignment or
\* a call with its arguments up to the end of the line
call_args(r, name) == IF ~r.ok THEN r ELSE Ok(r.p, CallSub(name, r.v))
ident_rest(p, name) ==
    IF check(p, "Eq") THEN let_expr(parse_expr(advance(p)), name)
    ELSE IF ~at_newline(p) /\ ~at_end(p) /\ ~check(p, "Colon")
    THEN call_args(next_argument(parse_expr(p), <<>>), name)
    ELSE Ok(p, CallSub(name, <<>>))

parse_ident_statement(p) ==
    IF check(advance(p), "LParen")
    THEN ident_indices(parse_arguments(advance(advance(p)), <<>>), peek(p).name)
    ELSE ident_rest(advance(p), peek(p).name)

parse_statement(p) ==
    CASE peek_kind(p) = "Let" -> parse_let(p)
      [] peek_kind(p) = "Print" -> parse_print(p)
      [] peek_kind(p) = "Goto" -> parse_goto(expect_label_target(advance(p)))
      [] peek_kind(p) = "Gosub" -> parse_gosub(expect_label_target(advance(p)))
      [] peek_kind(p) = "Return" -> Ok(advance(p), Return)
      [] peek_kind(p) = "End" -> Ok(advance(p), End)
      [] peek_kind(p) \in IdentKinds -> parse_ident_statement(p)
      [] OTHER -> Err(p, "expected statement")

\* the end of parse_top_level_statement: `let stmt = self.parse_statement()?;
\* self.eat_newline(); return Ok(Some(stmt))`
statement_line(r) == IF ~r.ok THEN r ELSE Ok(eat_newline(r.p), <<r.v>>)

\* parse_top_level_statement, after a numeric line label: label_stmt is
\* returned if the line ends here
numeric_label(p, label_stmt) ==
    IF at_newline(p) \/ at_end(p) THEN Ok(eat_newline(p), <<label_stmt>>)
    ELSE statement_line(parse_statement(p))

\* parse_top_level_statement: Option<Statement> as a sequence of length 0 or 1
parse_top_level_statement(p) ==
    IF at_newline(p) THEN Ok(eat_newline(p), <<>>)
    ELSE IF peek_kind(p) = "Ident" /\ peek_ahead_kind(p, 1) = "Colon"
    THEN Ok(eat_newline(advance(advance(p))), <<Label(peek(p).name.base)>>)
    ELSE IF peek_kind(p) = "IntLiteral"
    THEN numeric_label(advance(p), Label(ToString(peek(p).n)))
    ELSE statement_line(parse_statement(p))

\* parse_body_until_end_sub, parse_body_until_end_function
RECURSIVE parse_body_until_end(_, _, _)
RECURSIVE body_statement(_, _, _)
parse_body_until_end(p, keyword, stmts) ==
    IF at_end(skip_blank_lines(p))
       \/ check_end_keyword_ahead(skip_blank_lines(p), keyword)
    THEN Ok(skip_blank_lines(p), stmts)
    ELSE body_statement(parse_top_level_statement(skip_blank_lines(p)),
                        keyword, stmts)
body_statement(r, keyword, stmts) ==
    IF ~r.ok THEN r ELSE parse_body_until_end(r.p, keyword, stmts \o r.v)

\* parse_param: BYVAL and BYREF are not kept
typed_param(r, name) == IF ~r.ok THEN r ELSE Ok(r.p, Param(name, r.v))
param_type(r) ==
    IF ~r.ok THEN r
    ELSE IF check(r.p, "As") THEN typed_param(parse_type_name(advance(r.p)), r.v.name)
    ELSE Ok(r.p, Param(r.v.name, r.v.qb_type))
parse_param(p) == param_type(expect_variable(p))

RECURSIVE next_param(_, _)
next_param(r, params) ==
    IF ~r.ok THEN r
    ELSE IF check(r.p, "Comma")
    THEN next_param(parse_param(advance(r.p)), Append(params, r.v))
    ELSE Ok(r.p, Append(params, r.v))
parse_param_list(p) ==
    IF check(p, "RParen") THEN Ok(p, <<>>) ELSE next_param(parse_param(p), <<>>)

\* parse_sub_def and parse_function_def from the body on; def is the
\* definition without its body
def_end(r, keyword, def) ==
    IF ~r.ok THEN r
    ELSE IF check_end_keyword_ahead(r.p, keyword)
    THEN Ok(eat_newline(advance(advance(r.p))), [def EXCEPT !.body = r.v])
    ELSE Err(r.p, IF keyword = "Sub" THEN "expected END SUB"
                  ELSE "expected END FUNCTION")
def_body(p, keyword, def) ==
    def_end(parse_body_until_end(eat_newline(p), keyword, <<>>), keyword, def)

\* `AS returnType` of parse_function_def; a SUB has none
def_return_type(r, def) ==
    IF ~r.ok THEN r
    ELSE def_body(r.p, "Function", [def EXCEPT !.return_type = r.v])
def_as(p, keyword, def) ==
    IF keyword = "Function" /\ check(p, "As")
    THEN def_return_type(parse_type_name(advance(p)), def)
    ELSE def_body(p, keyword, def)

\* the parameter list in parentheses, if any
def_rparen(r, keyword, def) ==
    IF ~r.ok THEN r
    ELSE IF check(r.p, "RParen")
    THEN def_as(advance(r.p), keyword, [def EXCEPT !.params = r.v])
    ELSE Err(r.p, "expected )")
def_params(p, keyword, def) ==
    IF check(p, "LParen")
    THEN def_rparen(parse_param_list(advance(p)), keyword, def)
    ELSE def_as(p, keyword, def)

sub_name(r) ==
    IF ~r.ok THEN r ELSE def_params(r.p, "Sub", SubDef(r.v, <<>>, <<>>))
parse_sub_def(p) == sub_name(expect_ident_name(advance(p)))

function_name(r) ==
    IF ~r.ok THEN r
    ELSE def_params(r.p, "Function",
                    FunctionDef(r.v.name, <<>>, r.v.qb_type, <<>>))
parse_function_def(p) == function_name(expect_variable(advance(p)))

\* parse_program: the loop `while !self.at_end()`
RECURSIVE program_loop(_, _)
RECURSIVE program_item(_, _, _)
program_loop(p, prog) ==
    IF at_end(p) THEN Ok(p, prog)
    ELSE CASE peek_kind(p) = "Sub" -> program_item(parse_sub_def(p), "subs", prog)
           [] peek_kind(p) = "Function" ->
                 program_item(parse_function_def(p), "functions", prog)
           [] OTHER -> program_item(parse_top_level_statement(p), "body", prog)
program_item(r, list, prog) ==
    IF ~r.ok THEN r
    ELSE program_loop(skip_blank_lines(r.p),
            CASE list = "subs" -> [prog EXCEPT !.subs = Append(@, r.v)]
              [] list = "functions" -> [prog EXCEPT !.functions = Append(@, r.v)]
              [] OTHER -> [prog EXCEPT !.body = @ \o r.v])
parse_program(p) ==
    program_loop(skip_blank_lines(p), Program(<<>>, <<>>, <<>>, <<>>))

\* parse: the Program, or the first ParseError
parse(toks) == parse_program(NewParser(toks))

(***************************************************************************)
(* The parser's loops, one iteration per step: the cursor after each       *)
(* iteration of the loop of parse_program, of a SUB or FUNCTION body, of   *)
(* parse_block, of the PRINT item list and of the members of TYPE, ENUM    *)
(* and MACHINE.  The loops that are running are kept innermost last; the   *)
(* statements and expressions of one iteration are parsed within the step  *)
(* (their argument lists included), the Program is not built.              *)
(***************************************************************************)

\* Parser.pos, the running loops, and "Ok" or "Err" once parse has returned
\* `iterations` counts the loop iterations parse has run
Cursor(pos, loops, outcome) ==
    [pos |-> pos, loops |-> loops, outcome |-> outcome, iterations |-> 0]
NoCursor == Cursor(0, <<>>, "")
Running(p, loops) == Cursor(p.pos, loops, "")
\* `?` on a ParseError: every caller returns it
Failed(p) == Cursor(p.pos, <<>>, "Err")
\* parse_program returns Ok(Program)
Returned(p) == Cursor(p.pos, <<>>, "Ok")

\* eat that leaves the token where it is
eat_nothing(p, kind) == p
\* Parser::eat: the parser after the call
eat(p, kind) == IF check(p, kind) THEN advance(p) ELSE p

\* check_ident at an offset, and check_end_ident
check_ident_ahead(p, offset, text) ==
    peek_ahead_kind(p, offset) = "Ident" /\ peek_ahead(p, offset).name.base = text
check_end_ident(p, text) == peek_kind(p) = "End" /\ check_ident_ahead(p, 1, text)

\* parse_program, Some(TokenKind::Declare): the rest of the line
RECURSIVE skip_line(_)
skip_line(p) == IF ~at_newline(p) /\ ~at_end(p) THEN skip_line(advance(p)) ELSE p

\* the rest of an iteration once its item is parsed: parse_program skips
\* the blank lines behind it
after_item(p, loops) ==
    IF loops[Len(loops)] = "program" THEN Running(skip_blank_lines(p), loops)
    ELSE Running(p, loops)

\* `self.eat_newline()` behind parse_statement, in parse_top_level_statement
\* and in parse_block
statement_done(p, loops) == after_item(eat_newline(p), loops)

\* parse_statement and the eat_newline behind it; WHILE enters parse_block
\* and PRINT its item list
statement_step(p, loops) ==
    CASE peek_kind(p) = "While" ->
            LET condition == parse_expr(advance(p)) IN
            IF condition.ok
            THEN Running(eat_newline(condition.p), Append(loops, "block"))
            ELSE Failed(condition.p)
      [] peek_kind(p) = "Print" -> Running(advance(p), Append(loops, "print"))
      [] OTHER ->
            LET stmt == parse_statement(p) IN
            IF stmt.ok THEN statement_done(stmt.p, loops) ELSE Failed(stmt.p)

\* parse_top_level_statement
top_level_statement_step(p, loops) ==
    IF at_newline(p) THEN after_item(eat_newline(p), loops)
    ELSE IF peek_kind(p) = "Ident" /\ peek_ahead_kind(p, 1) = "Colon"
    THEN after_item(eat_newline(advance(advance(p))), loops)
    ELSE IF peek_kind(p) = "IntLiteral"
    THEN IF at_newline(advance(p)) \/ at_end(advance(p))
         THEN after_item(eat_newline(advance(p)), loops)
         ELSE statement_step(advance(p), loops)
    ELSE statement_step(p, loops)

\* parse_sub_def / parse_function_def up to the body
def_header(p, loops, keyword) ==
    LET name == IF keyword = "Sub" THEN expect_ident_name(advance(p))
                ELSE expect_variable(advance(p))
        params == IF check(name.p, "LParen") THEN parse_param_list(advance(name.p))
                  ELSE Ok(name.p, <<>>)
        closed == IF check(name.p, "LParen") THEN advance(params.p) ELSE params.p
        return_type == IF keyword = "Function" /\ check(closed, "As")
                       THEN parse_type_name(advance(closed))
                       ELSE Ok(closed, <<>>)
    IN IF ~name.ok THEN Failed(name.p)
       ELSE IF ~params.ok THEN Failed(params.p)
       ELSE IF check(name.p, "LParen") /\ ~check(params.p, "RParen") THEN Failed(params.p)
       ELSE IF ~return_type.ok THEN Failed(return_type.p)
       ELSE Running(eat_newline(return_type.p), Append(loops, keyword))

\* parse_type_def, parse_enum_def, parse_machine_def and a STATE up to the
\* members: the keyword, the name, the end of the line
named_header(p, loops, loop) ==
    LET name == expect_ident_name(advance(p)) IN
    IF name.ok THEN Running(eat_newline(name.p), Append(loops, loop))
    ELSE Failed(name.p)

\* one iteration of `while !self.at_end()` in parse_program
program_iteration(p, loops) ==
    IF at_end(p) THEN Returned(p)
    ELSE CASE peek_kind(p) \in {"Sub", "Function"} -> def_header(p, loops, peek_kind(p))
           [] peek_kind(p) = "Declare" ->
                 after_item(eat_newline(skip_line(advance(p))), loops)
           [] check_ident_ahead(p, 0, "TYPE") -> named_header(p, loops, "type")
           [] peek_kind(p) = "Enum" -> named_header(p, loops, "enum")
           [] peek_kind(p) = "Machine" -> named_header(p, loops, "machine")
           [] OTHER -> top_level_statement_step(p, loops)

\* expect_end_keyword behind a loop that was left, and what the caller does
\* with the item: a definition is followed by eat_newline
end_keyword(p, loops, keyword, is_def) ==
    IF check_end_keyword_ahead(p, keyword)
    THEN after_item(IF is_def THEN eat_newline(advance(advance(p)))
                    ELSE advance(advance(p)),
                    loops)
    ELSE Failed(p)

\* one iteration of parse_body_until_end_sub / parse_body_until_end_function
body_iteration(p, loops) ==
    LET q == skip_blank_lines(p)
        keyword == loops[Len(loops)]
    IN IF at_end(q) \/ check_end_keyword_ahead(q, keyword)
       THEN end_keyword(q, SubSeq(loops, 1, Len(loops) - 1), keyword, TRUE)
       ELSE top_level_statement_step(q, loops)

\* one iteration of parse_block(&[TokenKind::Wend]); behind it parse_while
\* expects WEND
block_iteration(p, loops) ==
    LET q == skip_blank_lines(p) IN
    IF at_end(q) \/ check(q, "Wend")
    THEN IF check(q, "Wend")
         THEN statement_done(advance(q), SubSeq(loops, 1, Len(loops) - 1))
         ELSE Failed(q)
    ELSE statement_step(q, loops)

\* one iteration of the item loop of parse_print
print_iteration(p, loops) ==
    IF at_newline(p) \/ at_end(p) \/ check(p, "Colon") \/ check(p, "Else")
    THEN statement_done(p, SubSeq(loops, 1, Len(loops) - 1))
    ELSE IF check(p, "Semicolon") THEN Running(eat(p, "Semicolon"), loops)
    ELSE IF check(p, "Comma") THEN Running(eat(p, "Comma"), loops)
    ELSE LET item == parse_expr(p) IN
         IF item.ok THEN Running(item.p, loops) ELSE Failed(item.p)

\* one iteration of the field loop of parse_type_def
type_iteration(p, loops) ==
    LET q == skip_blank_lines(p)
        field_name == expect_ident_name(q)
        field_type == parse_type_name(advance(field_name.p))
    IN IF check_end_ident(q, "TYPE")
       THEN after_item(advance(advance(q)), SubSeq(loops, 1, Len(loops) - 1))
       ELSE IF at_end(q) THEN Failed(q)
       ELSE IF ~field_name.ok THEN Failed(field_name.p)
       ELSE IF ~check(field_name.p, "As") THEN Failed(field_name.p)
       ELSE IF ~field_type.ok THEN Failed(field_type.p)
       ELSE Running(eat_newline(field_type.p), loops)

\* one iteration of the member loop of parse_enum_def
enum_iteration(p, loops) ==
    LET q == skip_blank_lines(p)
        member_name == expect_ident_name(q)
        value == eat(member_name.p, "Eq")
    IN IF at_end(q) \/ check_end_keyword_ahead(q, "Enum")
       THEN end_keyword(q, SubSeq(loops, 1, Len(loops) - 1), "Enum", FALSE)
       ELSE IF ~member_name.ok THEN Failed(member_name.p)
       ELSE IF ~check(member_name.p, "Eq") THEN Running(eat_newline(value), loops)
       ELSE IF peek_kind(value) = "IntLiteral"
       THEN Running(eat_newline(advance(value)), loops)
       ELSE Failed(value)

\* one iteration of the STATE loop of parse_machine_def
machine_iteration(p, loops) ==
    LET q == skip_blank_lines(p) IN
    IF at_end(q) \/ check_end_keyword_ahead(q, "Machine")
    THEN end_keyword(q, SubSeq(loops, 1, Len(loops) - 1), "Machine", FALSE)
    ELSE IF check_ident_ahead(q, 0, "STATE") THEN named_header(q, loops, "state")
    ELSE Failed(q)

\* one iteration of the transition loop of a STATE; behind it the optional
\* END STATE
state_iteration(p, loops) ==
    LET q == skip_blank_lines(p)
        event_name == expect_ident_name(eat(q, "On"))
        target_state == expect_ident_name(advance(event_name.p))
    IN IF \/ at_end(q)
          \/ check_ident_ahead(q, 0, "STATE")
          \/ check_end_keyword_ahead(q, "Machine")
          \/ check_end_ident(q, "STATE")
       THEN Running(IF check_end_ident(q, "STATE")
                    THEN eat_newline(advance(advance(q)))
                    ELSE q,
                    SubSeq(loops, 1, Len(loops) - 1))
       ELSE IF ~check(q, "On") THEN Failed(q)
       ELSE IF ~event_name.ok THEN Failed(event_name.p)
       ELSE IF ~check(event_name.p, "Goto") THEN Failed(event_name.p)
       ELSE IF ~target_state.ok THEN Failed(target_state.p)
       ELSE Running(eat_newline(target_state.p), loops)

\* the Parser at the cursor
AtCursor == [tokens |-> tokens, pos |-> cursor.pos]

\* iterations followed before the count stops
MaxIterations == 48

\* the innermost running loop is one of these
InLoop(names) ==
    /\ cursor.outcome = ""
    /\ cursor.loops # <<>>
    /\ cursor.loops[Len(cursor.loops)] \in names
    /\ cursor.iterations < MaxIterations

CursorMoves(next) ==
    /\ cursor' = [next EXCEPT !.iterations = cursor.iterations + 1]
    /\ UNCHANGED <<includeVars, source, tokens, command, diagnostics, previous,
                   program, pass, idx, semaVars, genVars>>

ProgramIteration ==
    InLoop({"program"}) /\ CursorMoves(program_iteration(AtCursor, cursor.loops))
BodyIteration ==
    InLoop({"Sub", "Function"}) /\ CursorMoves(body_iteration(AtCursor, cursor.loops))
BlockIteration ==
    InLoop({"block"}) /\ CursorMoves(block_iteration(AtCursor, cursor.loops))
PrintIteration ==
    InLoop({"print"}) /\ CursorMoves(print_iteration(AtCursor, cursor.loops))
TypeIteration ==
    InLoop({"type"}) /\ CursorMoves(type_iteration(AtCursor, cursor.loops))
EnumIteration ==
    InLoop({"enum"}) /\ CursorMoves(enum_iteration(AtCursor, cursor.loops))
MachineIteration ==
    InLoop({"machine"}) /\ CursorMoves(machine_iteration(AtCursor, cursor.loops))
StateIteration ==
    InLoop({"state"}) /\ CursorMoves(state_iteration(AtCursor, cursor.loops))

NextCursor ==
    \/ ProgramIteration
    \/ BodyIteration
    \/ BlockIteration
    \/ PrintIteration
    \/ TypeIteration
    \/ EnumIteration
    \/ MachineIteration
    \/ StateIteration

(***************************************************************************)
(* SemanticAnalyzer (rustybasic-sema/src/lib.rs)                           *)
(***************************************************************************)

\* SemaError: the message as its text, the name it is about, and the two
\* types a type-mismatch message prints ("was {:?} but used as {:?}")
SemaError(message, name) == [message |-> message, name |-> name, types |-> <<>>]
VarInfo(qb_type, is_array, dimensions) ==
    [qb_type |-> qb_type, is_array |-> is_array, dimensions |-> dimensions]

\* SemanticAnalyzer::new
NewAnalyzer ==
    [variables |-> <<>>, labels |-> {}, goto_targets |-> <<>>,
     gosub_targets |-> {}, has_gosub |-> FALSE, subs |-> <<>>,
     functions |-> <<>>, types |-> <<>>, constants |-> {},
     scope_stack |-> <<"TopLevel">>, errors |-> <<>>]

Push(s, message, name) ==
    [s EXCEPT !.errors = Append(@, SemaError(message, name))]

Has(map, key) == key \in DOMAIN map
Insert(map, key, value) ==
    [k \in DOMAIN map \cup {key} |-> IF k = key THEN value ELSE map[k]]

\* Contains as it would be if only the top of the stack counted
OnTop(stack, kind) == stack # <<>> /\ stack[Len(stack)] = kind
Contains(stack, kind) == \E i \in 1..Len(stack) : stack[i] = kind
Pop(stack) == SubSeq(stack, 1, Len(stack) - 1)

\* declare_or_check_var as it would be without the VarType comparison
declare_or_check_qbtype(s, name, qb_type) ==
    IF Has(s.variables, name)
    THEN LET existing == s.variables[name] IN
         IF /\ existing.qb_type # "Inferred"
            /\ qb_type # "Inferred"
            /\ existing.qb_type # qb_type
         THEN [s EXCEPT !.errors =
                  Append(@, [message |-> "type mismatch", name |-> name,
                             types |-> <<existing.qb_type, qb_type>>])]
         ELSE s
    ELSE [s EXCEPT !.variables = Insert(@, name, VarInfo(qb_type, FALSE, 0))]

\* register_var
register_var(s, name, qb_type) ==
    IF ~Has(s.variables, name)
    THEN [s EXCEPT !.variables = Insert(@, name, VarInfo(qb_type, FALSE, 0))]
    ELSE s

\* declare_or_check_var
declare_or_check_var(s, name, qb_type) ==
    IF Has(s.variables, name)
    THEN LET existing == s.variables[name] IN
         IF /\ existing.qb_type # "Inferred"
            /\ qb_type # "Inferred"
            /\ existing.qb_type # qb_type
            /\ VarTypeOf(existing.qb_type) # VarTypeOf(qb_type)
         THEN [s EXCEPT !.errors =
                  Append(@, [message |-> "type mismatch", name |-> name,
                             types |-> <<existing.qb_type, qb_type>>])]
         ELSE s
    ELSE [s EXCEPT !.variables = Insert(@, name, VarInfo(qb_type, FALSE, 0))]

\* reference_var
reference_var(s, name, qb_type) == declare_or_check_var(s, name, qb_type)

\* promote_numeric (None is read as Inferred)
promote_numeric(a, b) ==
    IF a = "Double" \/ b = "Double" THEN "Double"
    ELSE IF a = "Single" \/ b = "Single" THEN "Single"
    ELSE IF a = "Long" \/ b = "Long" THEN "Long"
    ELSE IF a = "Integer" \/ b = "Integer" THEN "Integer"
    ELSE "Single"

IntegerBuiltins ==
    {"INT", "FIX", "SGN", "CINT", "CLNG", "LEN", "ASC", "INSTR", "LBOUND",
     "UBOUND", "POS", "CSRLIN", "FREEFILE", "EOF", "LOC", "LOF", "SCREEN",
     "PEEK", "INP", "VARPTR", "SADD", "FRE"}

\* builtin_return_type
builtin_return_type(name) ==
    IF name.sigil = "$" THEN "String"
    ELSE IF name.sigil = "" /\ name.base \in IntegerBuiltins THEN "Integer"
    ELSE "Single"

\* check_type_assignment
check_type_assignment(s, name, target_type, et) ==
    IF target_type = "Inferred" \/ et = "Inferred" THEN s
    ELSE LET target_is_string == target_type = "String"
             expr_is_string == et = "String"
             s1 == IF target_is_string /\ ~expr_is_string
                   THEN Push(s, "cannot assign numeric value to string variable", name)
                   ELSE IF ~target_is_string /\ expr_is_string
                   THEN Push(s, "cannot assign string value to numeric variable", name)
                   ELSE s
         IN IF /\ target_type \notin BuiltinQBTypes
               /\ et \notin BuiltinQBTypes
               /\ target_type # et
            THEN Push(s1, "cannot assign (type mismatch)", name)
            ELSE s1

StringOps == {"Add", "Eq", "Neq", "Lt", "Gt", "Le", "Ge"}
ComparisonOps == {"Eq", "Neq", "Lt", "Gt", "Le", "Ge"}

RECURSIVE check_expr(_, _)
RECURSIVE check_exprs(_, _)

\* the loops `for arg in args { self.check_expr(arg); }`
check_exprs(s, es) ==
    IF es = <<>> THEN s ELSE check_exprs(check_expr(s, Head(es)).s, Tail(es))

\* check_expr: the analyzer after the call, and the type returned
check_expr(s, e) ==
    CASE e.k = "IntLiteral" -> [s |-> s, t |-> "Integer"]
      [] e.k = "FloatLiteral" -> [s |-> s, t |-> "Single"]
      [] e.k = "StringLiteral" -> [s |-> s, t |-> "String"]
      [] e.k = "Variable" ->
            [s |-> reference_var(s, e.name, e.var_type), t |-> e.var_type]
      [] e.k = "BinaryOp" ->
            LET l == check_expr(s, e.args[1])
                r == check_expr(l.s, e.args[2])
                either_string == l.t = "String" \/ r.t = "String"
                s1 == IF either_string /\ e.op \notin StringOps
                      THEN Push(r.s, "invalid operator for string operands", NoName)
                      ELSE r.s
            IN IF either_string /\ e.op = "Add" THEN [s |-> s1, t |-> "String"]
               ELSE IF e.op \in ComparisonOps THEN [s |-> s1, t |-> "Integer"]
               ELSE IF e.op \in {"And", "Or", "Xor"} THEN [s |-> s1, t |-> "Integer"]
               ELSE IF e.op = "IntDiv" THEN [s |-> s1, t |-> "Integer"]
               ELSE IF e.op = "Mod" THEN [s |-> s1, t |-> "Integer"]
               ELSE [s |-> s1, t |-> promote_numeric(l.t, r.t)]
      [] e.k = "UnaryOp" -> check_expr(s, e.args[1])
      [] e.k = "FnCall" ->
            LET s1 == check_exprs(s, e.args) IN
            IF Has(s1.variables, e.name) /\ s1.variables[e.name].is_array
            THEN LET info == s1.variables[e.name] IN
                 [s |-> IF info.dimensions # Len(e.args)
                        THEN Push(s1, "array dimension count", e.name)
                        ELSE s1,
                  t |-> info.qb_type]
            ELSE IF Has(s1.functions, e.name)
            THEN LET func_info == s1.functions[e.name] IN
                 [s |-> IF Len(func_info.params) # Len(e.args)
                        THEN Push(s1, "FUNCTION argument count", e.name)
                        ELSE s1,
                  t |-> func_info.return_type]
            ELSE [s |-> s1, t |-> builtin_return_type(e.name)]

RECURSIVE check_statement(_, _)
RECURSIVE check_body(_, _)
RECURSIVE check_clauses(_, _, _)

\* the loops `for s in body { self.check_statement(s); }`
check_body(s, stmts) ==
    IF stmts = <<>> THEN s
    ELSE check_body(check_statement(s, Head(stmts)), Tail(stmts))

\* the loops over else_if_clauses (If) and over cases (SelectCase): the
\* conditions or tests of a clause, then its body
check_clauses(s, cs, i) ==
    IF i > Len(cs) THEN s
    ELSE check_clauses(check_body(check_exprs(s, cs[i].tests), cs[i].body), cs, i + 1)

\* check_statement
check_statement(s, st) ==
    CASE st.k = "Let" ->
            LET e == check_expr(s, st.expr[1])
                s1 == declare_or_check_var(e.s, st.name, st.var_type)
            IN check_type_assignment(s1, st.name, st.var_type, e.t)
      [] st.k = "Dim" ->
            LET is_array == st.exprs # <<>>
                s1 == IF st.var_type \notin BuiltinQBTypes /\ ~Has(s.types, st.var_type)
                      THEN Push(s, "undefined TYPE", st.name)
                      ELSE s
                s2 == [s1 EXCEPT !.variables =
                          Insert(@, st.name, VarInfo(st.var_type, is_array, Len(st.exprs)))]
            IN check_exprs(s2, st.exprs)
      [] st.k = "Print" -> check_exprs(s, st.exprs)
      [] st.k = "Input" -> declare_or_check_var(s, st.name, st.var_type)
      [] st.k = "LineInput" -> declare_or_check_var(s, st.name, "String")
      [] st.k = "If" ->
            LET s1 == check_body(check_expr(s, st.expr[1]).s, st.body)
                s2 == check_clauses(s1, st.clauses, 1)
            IN check_body(s2, st.else_body)
      [] st.k = "For" ->
            LET s1 == declare_or_check_var(s, st.name, "Inferred")
                s2 == check_exprs(s1, st.exprs)
                s3 == [s2 EXCEPT !.scope_stack = Append(@, "ForLoop")]
                s4 == check_body(s3, st.body)
            IN [s4 EXCEPT !.scope_stack = Pop(@)]
      [] st.k = "DoLoop" ->
            LET s1 == IF st.pre # <<>> /\ st.post # <<>>
                      THEN Push(s, "DO...LOOP cannot have both conditions", NoName)
                      ELSE s
                s2 == check_exprs(s1, st.pre)
                s3 == [s2 EXCEPT !.scope_stack = Append(@, "DoLoop")]
                s4 == check_body(s3, st.body)
                s5 == [s4 EXCEPT !.scope_stack = Pop(@)]
            IN check_exprs(s5, st.post)
      [] st.k = "While" -> check_body(check_expr(s, st.expr[1]).s, st.body)
      [] st.k = "SelectCase" ->
            LET s1 == check_clauses(check_expr(s, st.expr[1]).s, st.clauses, 1)
            IN check_body(s1, st.else_body)
      [] st.k = "Goto" ->
            [s EXCEPT !.goto_targets = Append(@, st.target)]
      [] st.k = "Gosub" ->
            [s EXCEPT !.has_gosub = TRUE,
                      !.gosub_targets = @ \cup {st.target},
                      !.goto_targets = Append(@, st.target)]
      [] st.k = "CallSub" ->
            LET s1 == check_exprs(s, st.exprs) IN
            IF Has(s1.subs, st.name) /\ Len(s1.subs[st.name].params) # Len(st.exprs)
            THEN Push(s1, "SUB argument count", st.name)
            ELSE s1
      [] st.k \in {"Label", "Return", "End", "Rem"} -> s
      [] st.k = "ExitFor" ->
            IF ~Contains(s.scope_stack, "ForLoop")
            THEN Push(s, "EXIT FOR outside of FOR loop", NoName) ELSE s
      [] st.k = "ExitDo" ->
            IF ~Contains(s.scope_stack, "DoLoop")
            THEN Push(s, "EXIT DO outside of DO loop", NoName) ELSE s
      [] st.k = "ExitSub" ->
            IF ~Contains(s.scope_stack, "Sub")
            THEN Push(s, "EXIT SUB outside of SUB", NoName) ELSE s
      [] st.k = "ExitFunction" ->
            IF ~Contains(s.scope_stack, "Function")
            THEN Push(s, "EXIT FUNCTION outside of FUNCTION", NoName) ELSE s
      [] st.k = "ArrayAssign" ->
            LET e == check_expr(check_exprs(s, st.exprs), st.expr[1])
                s1 == e.s
            IN IF Has(s1.variables, st.name)
               THEN LET info == s1.variables[st.name]
                        s2 == IF ~info.is_array
                              THEN Push(s1, "is not an array", st.name)
                              ELSE IF info.dimensions # Len(st.exprs)
                              THEN Push(s1, "array dimension count", st.name)
                              ELSE s1
                    IN check_type_assignment(s2, st.name, info.qb_type, e.t)
               ELSE Push(s1, "undeclared array", st.name)

SeqRange(q) == {q[i] : i \in 1..Len(q)}

\* collect_type_def: the fields of one TYPE, duplicates reported and dropped
RECURSIVE collect_fields(_, _, _, _)
collect_fields(s, fields, td, i) ==
    IF i > Len(td.fields) THEN [s |-> s, fields |-> fields]
    ELSE LET f == td.fields[i] IN
         IF Has(fields, f.name)
         THEN collect_fields(Push(s, "duplicate field", Name(f.name, "")), fields, td, i + 1)
         ELSE collect_fields(s, Insert(fields, f.name, f.field_type), td, i + 1)

collect_type_def(s, td) ==
    IF Has(s.types, td.name)
    THEN Push(s, "duplicate TYPE definition", Name(td.name, ""))
    ELSE LET r == collect_fields(s, <<>>, td, 1) IN
         [r.s EXCEPT !.types = Insert(@, td.name, [fields |-> r.fields])]

\* validate_type_field_references: the errors it finds, as a set (the code
\* meets them in the iteration order of two HashMaps)
FieldReferenceErrors(s) ==
    {SemaError("field references undefined TYPE", Name(f, "")) :
        f \in UNION {{g \in DOMAIN s.types[tn].fields :
                        /\ s.types[tn].fields[g] \notin BuiltinQBTypes
                        /\ ~Has(s.types, s.types[tn].fields[g])} :
                     tn \in DOMAIN s.types}}

Enumerations(S) ==
    {q \in [1..Cardinality(S) -> S] : \A i, j \in DOMAIN q : q[i] = q[j] => i = j}

\* self.errors.extend(errors) as it would be if it also kept, in constants,
\* the field of the first error
extend_and_keep_first(s, q) ==
    [s EXCEPT !.errors = @ \o q,
              !.constants = IF q = <<>> THEN @ ELSE @ \cup {q[1].name}]
\* self.errors.extend(errors)
extend_errors(s, q) == [s EXCEPT !.errors = @ \o q]

\* the parameter checks shared by collect_sub_def and collect_function_def
RECURSIVE check_param_types(_, _, _)
check_param_types(s, params, i) ==
    IF i > Len(params) THEN s
    ELSE LET pt == params[i].param_type IN
         check_param_types(
            IF pt \notin BuiltinQBTypes /\ ~Has(s.types, pt)
            THEN Push(s, "parameter has undefined TYPE", params[i].name) ELSE s,
            params, i + 1)

\* ParamTypes as it would be if a signature lost its last parameter
ParamTypesButLast(params) == [i \in 1..(Len(params) - 1) |-> params[i].param_type]

ParamTypes(params) == [i \in 1..Len(params) |-> params[i].param_type]

\* collect_sub_def
collect_sub_def(s, sd) ==
    IF Has(s.subs, sd.name)
    THEN Push(s, "duplicate SUB definition", sd.name)
    ELSE [check_param_types(s, sd.params, 1) EXCEPT
            !.subs = Insert(@, sd.name, [params |-> ParamTypes(sd.params)])]

\* collect_function_def
collect_function_def(s, fd) ==
    IF Has(s.functions, fd.name)
    THEN Push(s, "duplicate FUNCTION definition", fd.name)
    ELSE LET s1 == check_param_types(s, fd.params, 1)
             s2 == IF fd.return_type \notin BuiltinQBTypes /\ ~Has(s1.types, fd.return_type)
                   THEN Push(s1, "FUNCTION has undefined return TYPE", fd.name)
                   ELSE s1
         IN [s2 EXCEPT !.functions =
                Insert(@, fd.name, [params |-> ParamTypes(fd.params),
                                    return_type |-> fd.return_type])]

RECURSIVE collect_labels(_, _)
RECURSIVE collect_labels_in_stmt(_, _)
RECURSIVE collect_labels_in_clauses(_, _, _)

\* collect_labels
collect_labels(s, stmts) ==
    IF stmts = <<>> THEN s
    ELSE collect_labels(collect_labels_in_stmt(s, Head(stmts)), Tail(stmts))

collect_labels_in_clauses(s, cs, i) ==
    IF i > Len(cs) THEN s
    ELSE collect_labels_in_clauses(collect_labels(s, cs[i].body), cs, i + 1)

\* collect_labels_in_stmt as it would be if a name were reported once
collect_labels_in_stmt_once(s, st) ==
    CASE st.k = "Label" ->
            IF st.target \in s.labels
            THEN IF \E i \in 1..Len(s.errors) :
                        s.errors[i] = SemaError("duplicate label", Name(st.target, ""))
                 THEN s
                 ELSE Push(s, "duplicate label", Name(st.target, ""))
            ELSE [s EXCEPT !.labels = @ \cup {st.target}]
      [] st.k = "If" ->
            collect_labels(
                collect_labels_in_clauses(collect_labels(s, st.body), st.clauses, 1),
                st.else_body)
      [] st.k \in {"For", "While", "DoLoop"} -> collect_labels(s, st.body)
      [] st.k = "SelectCase" ->
            collect_labels(collect_labels_in_clauses(s, st.clauses, 1), st.else_body)
      [] OTHER -> s

\* collect_labels_in_stmt
collect_labels_in_stmt(s, st) ==
    CASE st.k = "Label" ->
            IF st.target \in s.labels
            THEN Push(s, "duplicate label", Name(st.target, ""))
            ELSE [s EXCEPT !.labels = @ \cup {st.target}]
      [] st.k = "If" ->
            collect_labels(
                collect_labels_in_clauses(collect_labels(s, st.body), st.clauses, 1),
                st.else_body)
      [] st.k \in {"For", "While", "DoLoop"} -> collect_labels(s, st.body)
      [] st.k = "SelectCase" ->
            collect_labels(collect_labels_in_clauses(s, st.clauses, 1), st.else_body)
      [] OTHER -> s

RECURSIVE register_params(_, _, _)
register_params(s, params, i) ==
    IF i > Len(params) THEN s
    ELSE register_params(register_var(s, params[i].name, params[i].param_type),
                         params, i + 1)

\* check_sub_body
check_sub_body(s, sd) ==
    LET s1 == [s EXCEPT !.scope_stack = Append(@, "Sub")]
        s2 == register_params(s1, sd.params, 1)
        s3 == check_body(s2, sd.body)
    IN [s3 EXCEPT !.scope_stack = Pop(@)]

\* check_function_body
check_function_body(s, fd) ==
    LET s1 == [s EXCEPT !.scope_stack = Append(@, "Function")]
        s2 == register_params(s1, fd.params, 1)
        s3 == register_var(s2, fd.name, fd.return_type)
        s4 == check_body(s3, fd.body)
    IN [s4 EXCEPT !.scope_stack = Pop(@)]

\* pass 8 as it would be if it walked gosub_targets instead of goto_targets
RECURSIVE validate_gosub_targets(_, _)
validate_gosub_targets(s, i) ==
    IF i > Len(s.goto_targets) THEN s
    ELSE validate_gosub_targets(
            IF s.goto_targets[i] \notin s.labels /\ s.goto_targets[i] \in s.gosub_targets
            THEN Push(s, "undefined label", Name(s.goto_targets[i], ""))
            ELSE s,
            i + 1)

\* analyze, pass 8: one error for each recorded target that is no label
RECURSIVE validate_targets(_, _)
validate_targets(s, i) ==
    IF i > Len(s.goto_targets) THEN s
    ELSE validate_targets(
            IF s.goto_targets[i] \notin s.labels
            THEN Push(s, "undefined label", Name(s.goto_targets[i], ""))
            ELSE s,
            i + 1)

RECURSIVE FoldDefs(_, _, _, _)
\* `for d in defs { self.<which>(d); }`
FoldDefs(which, s, defs, i) ==
    IF i > Len(defs) THEN s
    ELSE FoldDefs(which,
            CASE which = "type" -> collect_type_def(s, defs[i])
              [] which = "sub" -> collect_sub_def(s, defs[i])
              [] which = "function" -> collect_function_def(s, defs[i])
              [] which = "labels" -> collect_labels(s, defs[i].body)
              [] which = "sub_body" -> check_sub_body(s, defs[i])
              [] which = "function_body" -> check_function_body(s, defs[i]),
            defs, i + 1)

\* analyze (passes 1 to 8) as one function of the Program
analyze(prog) ==
    LET p1 == FoldDefs("type", NewAnalyzer, prog.types, 1)
        e2 == FieldReferenceErrors(p1)
        p2 == [p1 EXCEPT !.errors = @ \o (CHOOSE q \in Enumerations(e2) : TRUE)]
        p3 == FoldDefs("function",
                       FoldDefs("sub", p2, prog.subs, 1), prog.functions, 1)
        p4 == FoldDefs("labels",
                       FoldDefs("labels", collect_labels(p3, prog.body), prog.subs, 1),
                       prog.functions, 1)
        p5 == check_body(p4, prog.body)
        p6 == FoldDefs("sub_body", p5, prog.subs, 1)
        p7 == FoldDefs("function_body", p6, prog.functions, 1)
    IN validate_targets(p7, 1)

(***************************************************************************)
(* Codegen (rustybasic-codegen/src/lib.rs): the LLVM module as a sequence  *)
(* of basic blocks, a block being its function, its name and the           *)
(* instructions built into it in order; a block is named by its index.     *)
(* Option values are sequences of length 0 or 1.                           *)
(***************************************************************************)

\* Codegen::new: the fields the control-flow lowering reads and writes
NewCodegen ==
    [module |-> <<>>, insert_block |-> 0,
     variables |-> <<>>, arrays |-> <<>>, label_bbs |-> <<>>,
     for_exit_stack |-> <<>>, do_exit_stack |-> <<>>,
     gosub_return_var |-> <<>>, gosub_dispatch_bb |-> <<>>,
     gosub_counter |-> 0, gosub_return_points |-> <<>>,
     current_function |-> <<>>, current_exit_bb |-> <<>>,
     user_functions |-> <<>>, sema |-> <<>>]

\* an instruction: its opcode, the blocks it branches to (a switch: its
\* default), the cases of a switch, the constant a store to the
\* gosub_return_idx slot writes, the stack slot an alloca creates or a
\* load or store of a variable addresses, the runtime function a call
\* names, and the array whose element a load, a store or a release addresses
Inst(op) ==
    [op |-> op, to |-> <<>>, cases |-> <<>>, v |-> 0, slot |-> <<>>, callee |-> "",
     elem |-> <<>>]
IsTerminator(i) == i.op \in {"br", "condbr", "switch", "ret", "unreachable"}

\* context.append_basic_block: the new block is the last of the module
NextBlock(g) == Len(g.module) + 1
append_basic_block(g, function, name) ==
    [g EXCEPT !.module = Append(@, [fn |-> function, name |-> name, insts |-> <<>>])]

\* builder.position_at_end
position_at_end(g, bb) == [g EXCEPT !.insert_block = bb]

\* builder.build_*: the instruction goes to the end of the insert block
build(g, inst) == [g EXCEPT !.module[g.insert_block].insts = Append(@, inst)]
build_unconditional_branch(g, bb) == build(g, [Inst("br") EXCEPT !.to = <<bb>>])
build_conditional_branch(g, then_bb, else_bb) ==
    build(g, [Inst("condbr") EXCEPT !.to = <<then_bb, else_bb>>])
build_switch(g, default, cases) ==
    build(g, [Inst("switch") EXCEPT !.to = <<default>>, !.cases = cases])

\* BasicBlock::get_terminator: the last instruction, if it is a terminator
get_terminator(g, bb) ==
    LET insts == g.module[bb].insts IN
    IF insts # <<>> /\ IsTerminator(insts[Len(insts)]) THEN <<insts[Len(insts)]>> ELSE <<>>

\* builder.get_insert_block().unwrap().get_terminator().is_some()
Terminated(g) == get_terminator(g, g.insert_block) # <<>>

\* if ...get_terminator().is_none() { build_unconditional_branch(bb) }
BranchIfOpen(g, bb) == IF Terminated(g) THEN g ELSE build_unconditional_branch(g, bb)

\* builder.build_alloca(llvm_type, name): the PointerValue is the function
\* the instruction is built into and the name
Slot(g, name) == <<g.module[g.insert_block].fn, name>>
build_alloca(g, name) == build(g, [Inst("alloca") EXCEPT !.slot = Slot(g, name)])
\* builder.build_store(alloca, val) / builder.build_load(llvm_type, alloca, _)
build_store(g, alloca) == build(g, [Inst("store") EXCEPT !.slot = alloca])
build_load(g, alloca) == build(g, [Inst("load") EXCEPT !.slot = alloca])
\* variables.insert(name, (alloca, vt)) after build_alloca
insert_variable(g, name, vt) ==
    [g EXCEPT !.variables = Insert(@, name, <<Slot(g, name), vt>>)]

\* the alloca and the initial store of a scalar
AllocaZero(g, name) == build_store(build_alloca(g, name), Slot(g, name))

\* the name of the slot of gosub_return_var
GosubReturnIdx == Name("gosub_return_idx", "")

\* compile_expr: instructions into the insert block, no block and no
\* terminator; literals are constants
RECURSIVE compile_expr(_, _)
RECURSIVE compile_exprs(_, _)
RECURSIVE compile_array_linear_index(_, _, _)

\* compile_array_linear_index, from index d on: the first index, then for
\* each further one the load of the dimension's size, the multiplication,
\* the index and the addition
compile_array_linear_index(g, indices, d) ==
    IF d > Len(indices) THEN g
    ELSE IF d = 1 THEN compile_array_linear_index(compile_expr(g, indices[1]), indices, 2)
    ELSE compile_array_linear_index(
             build(compile_expr(build(build(g, Inst("load")), Inst("op")), indices[d]),
                   Inst("op")),
             indices, d + 1)

\* the linear index, the bounds check and the GEP to the element
element_ptr(g, indices) ==
    build(build(build(build(compile_array_linear_index(g, indices, 1),
                            Inst("load")),
                      [Inst("call") EXCEPT !.callee = "rb_array_bounds_check"]),
                Inst("load")),
          Inst("gep"))

\* compile_array_read
compile_array_read(g, name, indices) ==
    build(element_ptr(g, indices), [Inst("load") EXCEPT !.elem = <<name>>])

compile_expr(g, e) ==
    CASE e.k \in {"IntLiteral", "FloatLiteral", "StringLiteral"} -> g
      [] e.k = "Variable" ->
            \* a name without a slot is the constant zero
            IF Has(g.variables, e.name)
            THEN build_load(g, g.variables[e.name][1])
            ELSE g
      [] e.k = "FnCall" ->
            IF Has(g.arrays, e.name) THEN compile_array_read(g, e.name, e.args)
            ELSE build(compile_exprs(g, e.args), Inst("call"))
      [] OTHER -> build(compile_exprs(g, e.args), Inst("op"))
compile_exprs(g, es) ==
    IF es = <<>> THEN g ELSE compile_exprs(compile_expr(g, Head(es)), Tail(es))

\* the built-in functions infer_expr_type gives the type Integer
IntegerBuiltinsOfCodegen == {"LEN", "ASC", "INSTR", "INT", "FIX", "SGN"}

\* infer_expr_type / infer_binary_result_type
RECURSIVE infer_expr_type(_, _)
infer_binary_result_type(g, op, left, right) ==
    LET lt == infer_expr_type(g, left)
        rt == infer_expr_type(g, right)
    IN IF lt = "String" \/ rt = "String"
       THEN IF op = "Add" THEN "String" ELSE "Integer"
       ELSE IF op \in {"Eq", "Neq", "Lt", "Gt", "Le", "Ge", "And", "Or", "Xor", "IntDiv"}
       THEN "Integer"
       ELSE IF lt = "Float" \/ rt = "Float" THEN "Float" ELSE "Integer"
infer_expr_type(g, e) ==
    CASE e.k = "IntLiteral" -> "Integer"
      [] e.k = "FloatLiteral" -> "Float"
      [] e.k = "StringLiteral" -> "String"
      [] e.k = "Variable" ->
            IF Has(g.variables, e.name) THEN g.variables[e.name][2]
            ELSE VarTypeOf(e.var_type)
      [] e.k = "BinaryOp" -> infer_binary_result_type(g, e.op, e.args[1], e.args[2])
      [] e.k = "UnaryOp" -> infer_expr_type(g, e.args[1])
      [] e.k = "FnCall" ->
            IF Has(g.arrays, e.name) THEN g.arrays[e.name]
            ELSE IF Has(g.sema[1].variables, e.name) /\ g.sema[1].variables[e.name].is_array
            THEN VarTypeOf(g.sema[1].variables[e.name].qb_type)
            ELSE IF Has(g.sema[1].functions, e.name)
            THEN VarTypeOf(g.sema[1].functions[e.name].return_type)
            ELSE IF e.name.sigil = "$" THEN "String"
            ELSE IF e.name.sigil = "" /\ e.name.base \in IntegerBuiltinsOfCodegen
            THEN "Integer"
            ELSE "Float"

\* the runtime function that prints a value of a storage type
rt_print(vt) ==
    CASE vt = "Integer" -> "rb_print_int"
      [] vt = "Float" -> "rb_print_float"
      [] vt = "String" -> "rb_print_string"

\* Statement::Print: each expression, and the call of the runtime function
\* of its inferred type
RECURSIVE compile_print_items(_, _)
compile_print_items(g, items) ==
    IF items = <<>> THEN g
    ELSE compile_print_items(
             build(compile_expr(g, Head(items)),
                   [Inst("call") EXCEPT !.callee = rt_print(infer_expr_type(g, Head(items)))]),
             Tail(items))

\* compile_condition
compile_condition(g, e) == build(compile_expr(g, e), Inst("icmp"))

\* collect_labels: a block for each label of the body, at any depth
RECURSIVE cg_collect_labels(_, _, _)
RECURSIVE cg_collect_labels_in_clauses(_, _, _, _)
cg_collect_labels(g, stmts, function) ==
    IF stmts = <<>> THEN g
    ELSE LET st == Head(stmts)
             g1 == IF st.k = "Label" /\ ~Has(g.label_bbs, st.target)
                   THEN [append_basic_block(g, function, <<"label", st.target>>)
                            EXCEPT !.label_bbs = Insert(@, st.target, NextBlock(g))]
                   ELSE g
             g2 == CASE st.k = "If" ->
                          cg_collect_labels(
                              cg_collect_labels_in_clauses(
                                  cg_collect_labels(g1, st.body, function),
                                  st.clauses, 1, function),
                              st.else_body, function)
                     [] st.k \in {"For", "While", "DoLoop"} ->
                          cg_collect_labels(g1, st.body, function)
                     [] st.k = "SelectCase" ->
                          cg_collect_labels(
                              cg_collect_labels_in_clauses(g1, st.clauses, 1, function),
                              st.else_body, function)
                     [] OTHER -> g1
         IN cg_collect_labels(g2, Tail(stmts), function)
cg_collect_labels_in_clauses(g, cs, i, function) ==
    IF i > Len(cs) THEN g
    ELSE cg_collect_labels_in_clauses(cg_collect_labels(g, cs[i].body, function),
                                      cs, i + 1, function)

\* Statement::Dim with dimensions: the instructions of one dimension
RECURSIVE compile_dimensions(_, _)
compile_dimensions(g, ds) ==
    IF ds = <<>> THEN g
    ELSE LET g1 == compile_expr(g, Head(ds))
             g2 == build(build(build(build(build(g1, Inst("call")), Inst("op")),
                                     Inst("alloca")), Inst("store")), Inst("op"))
         IN compile_dimensions(g2, Tail(ds))

\* a jump (GOTO, END, EXIT ...): branch, then a fresh block for what follows
BranchAndContinue(g, target_bb, after) ==
    LET g1 == build_unconditional_branch(g, target_bb)
    IN position_at_end(append_basic_block(g1, g.current_function[1], <<after>>),
                       NextBlock(g1))

\* last as it would be if EXIT left the outermost loop
first(stack) == stack[1]
\* for_exit_stack.last() / do_exit_stack.last(), of a stack that is not empty
last(stack) == stack[Len(stack)]

\* Statement::Dim with dimensions, after the sizes and the overflow compare
compile_dim_array(g, st) ==
    LET function == g.current_function[1]
        overflow_bb == NextBlock(g)
        ok_bb == overflow_bb + 1
        g2 == append_basic_block(append_basic_block(g, function, <<"arr_overflow">>),
                                 function, <<"arr_ok">>)
        g3 == build_conditional_branch(g2, overflow_bb, ok_bb)
        g4 == build(build(position_at_end(g3, overflow_bb), Inst("call")),
                    Inst("unreachable"))
        g5 == build(build(build(build(build(position_at_end(g4, ok_bb),
                  Inst("alloca")), Inst("store")), Inst("call")),
                  Inst("alloca")), Inst("store"))
    IN [g5 EXCEPT !.arrays = Insert(@, st.name, VarTypeOf(st.var_type))]

\* Statement::Gosub with a return slot and a known label
compile_gosub(g, target_bb) ==
    LET i == g.gosub_counter + 1
        return_bb == NextBlock(g)
        g1 == build([g EXCEPT !.gosub_counter = i],
                    [Inst("store_return_idx") EXCEPT
                        !.v = i, !.slot = <<g.gosub_return_var[1], GosubReturnIdx>>])
        g2 == [append_basic_block(g1, g.current_function[1], <<"gosub_ret", i>>)
                  EXCEPT !.gosub_return_points = Append(@, <<i, return_bb>>)]
    IN position_at_end(build_unconditional_branch(g2, target_bb), return_bb)

RECURSIVE compile_body(_, _)
RECURSIVE compile_statement(_, _)
RECURSIVE compile_else_ifs(_, _, _, _, _)
RECURSIVE compile_else_if(_, _, _, _, _)
RECURSIVE compile_cases(_, _, _, _, _)
RECURSIVE compile_if(_, _)
RECURSIVE compile_else(_, _, _)
RECURSIVE compile_for(_, _, _)
RECURSIVE compile_do_loop(_, _)
RECURSIVE compile_while(_, _)
RECURSIVE compile_select_case(_, _)

\* compile_body
compile_body(g, stmts) ==
    IF stmts = <<>> THEN g
    ELSE IF Terminated(g)
         THEN IF Head(stmts).k = "Label" /\ Has(g.label_bbs, Head(stmts).target)
              THEN compile_body(position_at_end(g, g.label_bbs[Head(stmts).target]),
                                Tail(stmts))
              ELSE g
         ELSE compile_body(compile_statement(g, Head(stmts)), Tail(stmts))

\* Statement::If, the loop over else_if_clauses: clause i, its condition
\* already in the insert block
compile_else_if(g, clauses, i, merge_bb, has_else) ==
    LET function == g.current_function[1]
        ei_then == NextBlock(g)
        fresh == i < Len(clauses) \/ has_else
        ei_next == IF fresh THEN ei_then + 1 ELSE merge_bb
        g2 == append_basic_block(g, function, <<"elseif.then", i - 1>>)
        g3 == IF fresh
              THEN append_basic_block(g2, function,
                                      IF i < Len(clauses) THEN <<"elseif.next", i - 1>>
                                      ELSE <<"if.else.final">>)
              ELSE g2
        g4 == build_conditional_branch(g3, ei_then, ei_next)
        g5 == compile_body(position_at_end(g4, ei_then), clauses[i].body)
    IN compile_else_ifs(position_at_end(BranchIfOpen(g5, merge_bb), ei_next),
                        clauses, i + 1, merge_bb, has_else)

compile_else_ifs(g, clauses, i, merge_bb, has_else) ==
    IF i > Len(clauses) THEN g
    ELSE compile_else_if(compile_condition(g, clauses[i].tests[1]),
                         clauses, i, merge_bb, has_else)

\* Statement::If, the else block: the ELSEIF clauses, the ELSE body (a body
\* that is empty compiles to nothing), the branch to the merge block
compile_else(g, st, merge_bb) ==
    IF st.clauses # <<>>
    THEN BranchIfOpen(
             compile_body(compile_else_ifs(g, st.clauses, 1, merge_bb, st.else_body # <<>>),
                          st.else_body),
             merge_bb)
    ELSE BranchIfOpen(compile_body(g, st.else_body), merge_bb)

\* Statement::If, after the condition
compile_if(g, st) ==
    LET function == g.current_function[1]
        then_bb == NextBlock(g)
        merge_bb == then_bb + 1
        else_bb == then_bb + 2
        g2 == append_basic_block(append_basic_block(g, function, <<"if.then">>),
                                 function, <<"if.merge">>)
    IN IF st.clauses = <<>> /\ st.else_body = <<>>
       THEN position_at_end(
                BranchIfOpen(
                    compile_body(
                        position_at_end(build_conditional_branch(g2, then_bb, merge_bb),
                                        then_bb),
                        st.body),
                    merge_bb),
                merge_bb)
       ELSE position_at_end(
                compile_else(
                    position_at_end(
                        BranchIfOpen(
                            compile_body(
                                position_at_end(
                                    build_conditional_branch(
                                        append_basic_block(g2, function, <<"if.else">>),
                                        then_bb, else_bb),
                                    then_bb),
                                st.body),
                            merge_bb),
                        else_bb),
                    st, merge_bb),
                merge_bb)

\* Statement::For, the increment and the back edge of a body left open
close_for_body(g, var_alloca, loop_bb) ==
    IF Terminated(g) THEN g
    ELSE build_unconditional_branch(
             build_store(build(build_load(g, var_alloca), Inst("op")), var_alloca),
             loop_bb)

\* Statement::For, after the variable, from and to
compile_for(g, st, var_alloca) ==
    LET function == g.current_function[1]
        loop_bb == NextBlock(g)
        body_bb == loop_bb + 1
        after_bb == loop_bb + 2
        g3 == append_basic_block(append_basic_block(append_basic_block(
                  g, function, <<"for.loop">>), function, <<"for.body">>),
                  function, <<"for.after">>)
        g4 == build_unconditional_branch(
                  [g3 EXCEPT !.for_exit_stack = Append(@, after_bb)], loop_bb)
        g5 == build_conditional_branch(
                  build(build_load(position_at_end(g4, loop_bb), var_alloca),
                        Inst("fcmp")),
                  body_bb, after_bb)
        g7 == close_for_body(compile_body(position_at_end(g5, body_bb), st.body),
                             var_alloca, loop_bb)
    IN position_at_end([g7 EXCEPT !.for_exit_stack = Pop(@)], after_bb)

\* Statement::DoLoop, the end of a body left open (a condition is WHILE)
close_do_body(g, st, cond_bb, body_bb, after_bb) ==
    IF Terminated(g) THEN g
    ELSE IF st.post # <<>>
         THEN build_conditional_branch(compile_condition(g, st.post[1]), body_bb, after_bb)
         ELSE IF st.pre # <<>>
              THEN build_unconditional_branch(g, cond_bb)
              ELSE build_unconditional_branch(g, body_bb)

\* Statement::DoLoop
compile_do_loop(g, st) ==
    LET function == g.current_function[1]
        cond_bb == NextBlock(g)
        body_bb == cond_bb + 1
        after_bb == cond_bb + 2
        g2 == [append_basic_block(append_basic_block(append_basic_block(
                  g, function, <<"do.cond">>), function, <<"do.body">>),
                  function, <<"do.after">>)
                  EXCEPT !.do_exit_stack = Append(@, after_bb)]
        g3 == IF st.pre # <<>>
              THEN build_conditional_branch(
                       compile_condition(
                           position_at_end(build_unconditional_branch(g2, cond_bb), cond_bb),
                           st.pre[1]),
                       body_bb, after_bb)
              ELSE build_unconditional_branch(g2, body_bb)
        g5 == close_do_body(compile_body(position_at_end(g3, body_bb), st.body),
                            st, cond_bb, body_bb, after_bb)
    IN position_at_end([g5 EXCEPT !.do_exit_stack = Pop(@)], after_bb)

\* Statement::While
compile_while(g, st) ==
    LET function == g.current_function[1]
        cond_bb == NextBlock(g)
        body_bb == cond_bb + 1
        after_bb == cond_bb + 2
        g1 == append_basic_block(append_basic_block(append_basic_block(
                  g, function, <<"while.cond">>), function, <<"while.body">>),
                  function, <<"while.after">>)
        g2 == position_at_end(build_unconditional_branch(g1, cond_bb), cond_bb)
        g3 == build_conditional_branch(compile_condition(g2, st.expr[1]), body_bb, after_bb)
        g4 == compile_body(position_at_end(g3, body_bb), st.body)
    IN position_at_end(BranchIfOpen(g4, cond_bb), after_bb)

\* Statement::SelectCase, the chain of case tests
compile_cases(g, cases, ci, merge_bb, else_bb) ==
    IF ci > Len(cases) THEN g
    ELSE LET function == g.current_function[1]
             case_body_bb == NextBlock(g)
             next_test == IF ci < Len(cases) THEN case_body_bb + 1 ELSE else_bb
             g1 == append_basic_block(g, function, <<"case.body", ci - 1>>)
             g2 == IF ci < Len(cases)
                   THEN append_basic_block(g1, function, <<"case.test", ci>>)
                   ELSE g1
             g3 == build(build(compile_exprs(g2, cases[ci].tests), Inst("op")),
                         Inst("icmp"))
             g4 == build_conditional_branch(g3, case_body_bb, next_test)
             g5 == compile_body(position_at_end(g4, case_body_bb), cases[ci].body)
         IN compile_cases(position_at_end(BranchIfOpen(g5, merge_bb), next_test),
                          cases, ci + 1, merge_bb, else_bb)

\* Statement::SelectCase, after the selector (an else_body that is empty
\* compiles to nothing)
compile_select_case(g, st) ==
    LET function == g.current_function[1]
        merge_bb == NextBlock(g)
        else_bb == merge_bb + 1
        g2 == append_basic_block(append_basic_block(
                  g, function, <<"select.merge">>), function, <<"select.else">>)
        g4 == IF st.clauses = <<>>
              THEN position_at_end(build_unconditional_branch(g2, else_bb), else_bb)
              ELSE compile_cases(g2, st.clauses, 1, merge_bb, else_bb)
    IN position_at_end(BranchIfOpen(compile_body(g4, st.else_body), merge_bb), merge_bb)

\* compile_statement
compile_statement(g, st) ==
    CASE st.k = "Label" ->
            IF Has(g.label_bbs, st.target)
            THEN position_at_end(BranchIfOpen(g, g.label_bbs[st.target]),
                                 g.label_bbs[st.target])
            ELSE g
      [] st.k = "Dim" ->
            IF st.exprs # <<>>
            THEN IF ~Has(g.arrays, st.name)
                 THEN compile_dim_array(
                          build(compile_dimensions(g, st.exprs), Inst("icmp")), st)
                 ELSE g
            ELSE IF ~Has(g.variables, st.name)
                 THEN insert_variable(AllocaZero(g, st.name), st.name,
                                      VarTypeOf(st.var_type))
                 ELSE g
      [] st.k = "Let" ->
            LET g1 == IF ~Has(g.variables, st.name)
                      THEN insert_variable(build_alloca(g, st.name), st.name,
                                           VarTypeOf(st.var_type))
                      ELSE g
            IN build_store(compile_expr(g1, st.expr[1]), g1.variables[st.name][1])
      [] st.k = "If" -> compile_if(compile_condition(g, st.expr[1]), st)
      [] st.k = "For" ->
            LET g1 == IF ~Has(g.variables, st.name)
                      THEN insert_variable(build_alloca(g, st.name), st.name, "Float")
                      ELSE g
                var_alloca == g1.variables[st.name][1]
            IN compile_for(
                   compile_expr(build_store(compile_expr(g1, st.exprs[1]), var_alloca),
                                st.exprs[2]),
                   st, var_alloca)
      [] st.k = "DoLoop" -> compile_do_loop(g, st)
      [] st.k = "While" -> compile_while(g, st)
      [] st.k = "SelectCase" -> compile_select_case(compile_expr(g, st.expr[1]), st)
      [] st.k = "Goto" ->
            BranchAndContinue(g, IF Has(g.label_bbs, st.target)
                                 THEN g.label_bbs[st.target]
                                 ELSE g.current_exit_bb[1],
                              "after_goto")
      [] st.k = "Gosub" ->
            IF g.gosub_return_var # <<>> /\ Has(g.label_bbs, st.target)
            THEN compile_gosub(g, g.label_bbs[st.target])
            ELSE BranchAndContinue(g, g.current_exit_bb[1], "after_gosub")
      [] st.k = "Return" ->
            BranchAndContinue(g, IF g.gosub_dispatch_bb # <<>>
                                 THEN g.gosub_dispatch_bb[1]
                                 ELSE g.current_exit_bb[1],
                              "after_return")
      [] st.k = "CallSub" ->
            IF Has(g.user_functions, st.name)
            THEN build(compile_exprs(g, st.exprs), Inst("call"))
            ELSE g
      [] st.k = "End" -> BranchAndContinue(g, g.current_exit_bb[1], "after_end")
      [] st.k = "ExitFor" ->
            IF g.for_exit_stack # <<>>
            THEN BranchAndContinue(g, last(g.for_exit_stack), "after_exitfor")
            ELSE g
      [] st.k = "ExitDo" ->
            IF g.do_exit_stack # <<>>
            THEN BranchAndContinue(g, last(g.do_exit_stack), "after_exitdo")
            ELSE g
      [] st.k \in {"ExitSub", "ExitFunction"} ->
            BranchAndContinue(g, g.current_exit_bb[1], "after_exit")
      [] st.k = "Print" ->
            \* rb_print_newline unless the last item is a semicolon
            build(compile_print_items(g, st.exprs), Inst("call"))
      [] st.k = "ArrayAssign" ->
            IF Has(g.arrays, st.name)
            THEN LET g1 == element_ptr(g, st.exprs)
                     \* "For string arrays, release old value"
                     g2 == IF g.arrays[st.name] = "String"
                           THEN build(build(g1, [Inst("load") EXCEPT !.elem = <<st.name>>]),
                                      [Inst("call") EXCEPT
                                          !.callee = "rb_string_release",
                                          !.elem = <<st.name>>])
                           ELSE g1
                 IN build(compile_expr(g2, st.expr[1]),
                          [Inst("store") EXCEPT !.elem = <<st.name>>])
            ELSE g

\* str::to_lowercase on the upper-cased identifiers of the programs below
LowerCase == [A |-> "a", B |-> "b", F |-> "f", I |-> "i", L |-> "l", Q |-> "q",
              S |-> "s", X |-> "x"]
to_lowercase(name) ==
    [name EXCEPT !.base = IF @ \in DOMAIN LowerCase THEN LowerCase[@] ELSE @]

\* declare_user_sub, declare_user_function: module.add_function under the
\* name qb_sub_<lowercased name> or qb_fn_<lowercased name>, and the entry
\* of user_functions under the definition's name
RECURSIVE declare_user(_, _, _, _)
declare_user(g, prefix, defs, i) ==
    IF i > Len(defs) THEN g
    ELSE declare_user(
            [g EXCEPT !.user_functions =
                         Insert(@, defs[i].name, <<prefix, to_lowercase(defs[i].name)>>)],
            prefix, defs, i + 1)

\* compile, "Allocate all top-level variables": an alloca and a store for
\* each scalar of the SemaResult
RECURSIVE allocate_variables(_, _, _)
allocate_variables(g, sema_variables, names) ==
    IF names = {} THEN g
    ELSE LET name == CHOOSE n \in names : TRUE
             g1 == IF sema_variables[name].is_array THEN g
                   ELSE insert_variable(AllocaZero(g, name), name,
                                        VarTypeOf(sema_variables[name].qb_type))
         IN allocate_variables(g1, sema_variables, names \ {name})

\* compile, "GOSUB support"
gosub_support(g, has_gosub_, entry_fn) ==
    IF has_gosub_
    THEN [append_basic_block(AllocaZero(g, GosubReturnIdx), entry_fn,
                             <<"gosub_dispatch">>)
             EXCEPT !.gosub_return_var = <<entry_fn>>,
                    !.gosub_dispatch_bb = <<NextBlock(g)>>]
    ELSE g

\* compile, "GOSUB dispatch"
gosub_dispatch(g, exit_bb) ==
    IF g.gosub_dispatch_bb # <<>>
    THEN IF g.gosub_return_points = <<>>
         THEN build_unconditional_branch(
                  build_load(position_at_end(g, g.gosub_dispatch_bb[1]),
                             <<g.gosub_return_var[1], GosubReturnIdx>>),
                  exit_bb)
         ELSE build_switch(
                  build_load(position_at_end(g, g.gosub_dispatch_bb[1]),
                             <<g.gosub_return_var[1], GosubReturnIdx>>),
                  exit_bb, g.gosub_return_points)
    ELSE g

\* compile, the first block of basic_program_entry
compile_entry_block(g, entry_fn) ==
    [position_at_end(append_basic_block(g, entry_fn, <<"entry">>), NextBlock(g))
        EXCEPT !.current_function = <<entry_fn>>]

\* compile, up to the lowering of program.body: the declarations, the
\* entry block, the variables, the label blocks, the GOSUB support and the
\* exit block
compile_entry_start(g, prog, sema) ==
    LET entry_fn == <<"basic_program_entry", NoName>>
        \* Codegen::new keeps the SemaResult; its tables the lowering reads
        g0 == [g EXCEPT !.sema = <<[variables |-> sema.variables,
                                   functions |-> sema.functions]>>]
        g1 == declare_user(declare_user(g0, "qb_sub", prog.subs, 1),
                           "qb_fn", prog.functions, 1)
        g3 == allocate_variables(compile_entry_block(g1, entry_fn), sema.variables,
                                 DOMAIN sema.variables)
        g5 == gosub_support(cg_collect_labels(g3, prog.body, entry_fn),
                            sema.has_gosub, entry_fn)
    IN [append_basic_block(g5, entry_fn, <<"exit">>)
           EXCEPT !.current_exit_bb = <<NextBlock(g5)>>]

\* compile, from the lowering of program.body to the ret of
\* basic_program_entry
compile_entry_body(g, prog) ==
    LET exit_bb == g.current_exit_bb[1]
        g7 == BranchIfOpen(compile_body(g, prog.body), exit_bb)
    IN build(position_at_end(gosub_dispatch(g7, exit_bb), exit_bb), Inst("ret"))

\* compile, up to and including the exit block of basic_program_entry
compile_entry(g, prog, sema) ==
    compile_entry_body(compile_entry_start(g, prog, sema), prog)

\* the parameters of a SUB or FUNCTION: an alloca, a store, a variables entry
RECURSIVE compile_params(_, _, _)
compile_params(g, params, i) ==
    IF i > Len(params) THEN g
    ELSE compile_params(
            insert_variable(AllocaZero(g, params[i].name), params[i].name,
                            VarTypeOf(params[i].param_type)),
            params, i + 1)

\* compile_sub_body / compile_function_body: the entry block
enter_body(g, func) ==
    position_at_end(append_basic_block(g, func, <<"entry">>), NextBlock(g))

\* ... std::mem::take of variables, arrays and label_bbs, the new current
\* function and its exit block
take_state(g, func) ==
    [append_basic_block(g, func, <<"exit">>)
        EXCEPT !.variables = <<>>, !.arrays = <<>>, !.label_bbs = <<>>,
               !.current_function = <<func>>,
               !.current_exit_bb = <<NextBlock(g)>>]

\* ... labels, body, branch to the exit block if not terminated
compile_def_body(g, body) ==
    BranchIfOpen(compile_body(cg_collect_labels(g, body, g.current_function[1]), body),
                 g.current_exit_bb[1])

\* ... the fields the function restores from its saved_* locals
restore_state(g, saved) ==
    [g EXCEPT !.variables = saved.variables, !.arrays = saved.arrays,
              !.current_function = saved.current_function,
              !.current_exit_bb = saved.current_exit_bb,
              !.label_bbs = saved.label_bbs]

\* compile_sub_body
compile_sub_body(g, sub_def) ==
    LET func == g.user_functions[sub_def.name]
        g3 == compile_params(take_state(enter_body(g, func), func), sub_def.params, 1)
        g4 == compile_def_body(g3, sub_def.body)
        g5 == build(position_at_end(g4, NextBlock(g) + 1), Inst("ret"))
    IN restore_state(g5, g)

\* compile_function_body
compile_function_body(g, fn_def) ==
    LET func == g.user_functions[fn_def.name]
        g2 == take_state(enter_body(g, func), func)
        g3 == insert_variable(AllocaZero(g2, fn_def.name), fn_def.name,
                              VarTypeOf(fn_def.return_type))
        g5 == compile_def_body(compile_params(g3, fn_def.params, 1), fn_def.body)
        g6 == build(build_load(position_at_end(g5, NextBlock(g) + 1),
                               <<func, fn_def.name>>),
                    Inst("ret"))
    IN restore_state(g6, g)

(***************************************************************************)
(* analyze as a state machine: one step per pass, and within passes 5 to 7 *)
(* one step per module-level statement, SUB body or FUNCTION body.         *)
(***************************************************************************)

\* the analyzer's fields as one record, and back
SA ==
    [variables |-> variables, labels |-> labels, goto_targets |-> goto_targets,
     gosub_targets |-> gosub_targets, has_gosub |-> has_gosub, subs |-> subs,
     functions |-> functions, types |-> types, constants |-> constants,
     scope_stack |-> scope_stack, errors |-> errors]

SetSA(s) ==
    /\ variables' = s.variables
    /\ labels' = s.labels
    /\ goto_targets' = s.goto_targets
    /\ gosub_targets' = s.gosub_targets
    /\ has_gosub' = s.has_gosub
    /\ subs' = s.subs
    /\ functions' = s.functions
    /\ types' = s.types
    /\ constants' = s.constants
    /\ scope_stack' = s.scope_stack
    /\ errors' = s.errors

\* the pass that follows p: a `for` loop over an empty list does nothing
PassAfter(p) ==
    LET order == <<"body", "subs", "functions">>
        list == [body |-> program.body, subs |-> program.subs,
                 functions |-> program.functions]
        from == CASE p = "labels" -> 1 [] p = "body" -> 2
                  [] p = "subs" -> 3 [] OTHER -> 4
        rest == {i \in from..3 : list[order[i]] # <<>>}
    IN IF rest = {} THEN "targets"
       ELSE order[CHOOSE i \in rest : \A j \in rest : i <= j]

StepTo(list) ==
    IF idx < Len(list)
    THEN pass' = pass /\ idx' = idx + 1
    ELSE pass' = PassAfter(pass) /\ idx' = 1

\* analyze, pass 1
CollectTypeDefs ==
    /\ pass = "types"
    /\ SetSA(FoldDefs("type", SA, program.types, 1))
    /\ pass' = "fields"
    /\ UNCHANGED <<srcVars, program, idx, genVars>>

\* analyze, pass 2
ValidateTypeFieldReferences ==
    /\ pass = "fields"
    /\ \E q \in Enumerations(FieldReferenceErrors(SA)) : SetSA(extend_errors(SA, q))
    /\ pass' = "signatures"
    /\ UNCHANGED <<srcVars, program, idx, genVars>>

\* analyze, pass 3
CollectSignatures ==
    /\ pass = "signatures"
    /\ SetSA(FoldDefs("function", FoldDefs("sub", SA, program.subs, 1),
                      program.functions, 1))
    /\ pass' = "labels"
    /\ UNCHANGED <<srcVars, program, idx, genVars>>

\* analyze, pass 4
CollectLabels ==
    /\ pass = "labels"
    /\ SetSA(FoldDefs("labels",
                FoldDefs("labels", collect_labels(SA, program.body), program.subs, 1),
                program.functions, 1))
    /\ pass' = PassAfter("labels")
    /\ idx' = 1
    /\ UNCHANGED <<srcVars, program, genVars>>

\* analyze, pass 5: the next module-level statement
CheckModuleStatement ==
    /\ pass = "body"
    /\ SetSA(check_statement(SA, program.body[idx]))
    /\ StepTo(program.body)
    /\ UNCHANGED <<srcVars, program, genVars>>

\* analyze, pass 6: the next SUB body
CheckSubBody ==
    /\ pass = "subs"
    /\ SetSA(check_sub_body(SA, program.subs[idx]))
    /\ StepTo(program.subs)
    /\ UNCHANGED <<srcVars, program, genVars>>

\* analyze, pass 7: the next FUNCTION body
CheckFunctionBody ==
    /\ pass = "functions"
    /\ SetSA(check_function_body(SA, program.functions[idx]))
    /\ StepTo(program.functions)
    /\ UNCHANGED <<srcVars, program, genVars>>

\* analyze, pass 8, and the SemaResult
ValidateTargets ==
    /\ pass = "targets"
    /\ SetSA(validate_targets(SA, 1))
    /\ pass' = "analyzed"
    /\ UNCHANGED <<srcVars, program, idx, genVars>>

NextSema ==
    \/ CollectTypeDefs
    \/ ValidateTypeFieldReferences
    \/ CollectSignatures
    \/ CollectLabels
    \/ CheckModuleStatement
    \/ CheckSubBody
    \/ CheckFunctionBody
    \/ ValidateTargets

\* the tables of a SemaResult
SemaResult(s) ==
    [variables |-> s.variables, labels |-> s.labels,
     gosub_targets |-> s.gosub_targets, has_gosub |-> s.has_gosub,
     subs |-> s.subs, functions |-> s.functions, types |-> s.types,
     constants |-> s.constants]

\* analyze(&program) once more: SemanticAnalyzer::new().analyze(program),
\* the result of the call before being kept by the caller
AnalyzeAgain ==
    /\ pass = "analyzed"
    /\ previous = <<>>
    /\ previous' = <<SemaResult(SA)>>
    /\ SetSA(NewAnalyzer)
    /\ pass' = "types"
    /\ idx' = 1
    /\ UNCHANGED <<includeVars, source, tokens, command, diagnostics, cursor, program,
                   genVars>>

NextAgain ==
    \/ NextSema
    \/ AnalyzeAgain

InitSema(programs) ==
    /\ files = <<>>
    /\ visited = {}
    /\ frames = <<>>
    /\ source = <<>>
    /\ tokens = <<>>
    /\ command = "Build"
    /\ diagnostics = <<>>
    /\ previous = <<>>
    /\ cursor = NoCursor
    /\ program \in programs
    /\ pass = "types"
    /\ idx = 1
    /\ variables = NewAnalyzer.variables
    /\ labels = NewAnalyzer.labels
    /\ goto_targets = NewAnalyzer.goto_targets
    /\ gosub_targets = NewAnalyzer.gosub_targets
    /\ has_gosub = NewAnalyzer.has_gosub
    /\ subs = NewAnalyzer.subs
    /\ functions = NewAnalyzer.functions
    /\ types = NewAnalyzer.types
    /\ constants = NewAnalyzer.constants
    /\ scope_stack = NewAnalyzer.scope_stack
    /\ errors = NewAnalyzer.errors
    /\ codegen = NewCodegen
    /\ pc = 0
    /\ gosub_return_idx = 0
    /\ call_stack = <<>>

(***************************************************************************)
(* Programs with jumps and labels: one GOTO or GOSUB under up to MaxDepth  *)
(* nested compound statements, in the module body, a SUB or a FUNCTION;    *)
(* label A declared nowhere, before or after it, beside it in the          *)
(* innermost body, or in another body; label B declared nowhere.           *)
(***************************************************************************)

MaxDepth == 2

WrapperKinds ==
    {"IfThen", "IfElseIf", "IfElse", "For", "While", "DoLoop", "Case", "CaseElse"}

Wrap(w, body) ==
    CASE w = "IfThen" -> If(IntLiteral, body, <<>>, <<>>)
      [] w = "IfElseIf" -> If(IntLiteral, <<>>, <<Clause(<<IntLiteral>>, body)>>, <<>>)
      [] w = "IfElse" -> If(IntLiteral, <<>>, <<>>, body)
      [] w = "For" -> For(Name("I", ""), IntLiteral, IntLiteral, body)
      [] w = "While" -> While(IntLiteral, body)
      [] w = "DoLoop" -> DoLoop(<<>>, <<>>, body)
      [] w = "Case" -> SelectCase(IntLiteral, <<Clause(<<IntLiteral>>, body)>>, <<>>)
      [] w = "CaseElse" -> SelectCase(IntLiteral, <<>>, body)

RECURSIVE WrapChain(_, _)
WrapChain(chain, body) ==
    IF chain = <<>> THEN body
    ELSE <<Wrap(Head(chain), WrapChain(Tail(chain), body))>>

Chains(d) == UNION {[1..n -> WrapperKinds] : n \in 0..d}

Jumps == {Goto("A"), Goto("B"), Gosub("A"), Gosub("B")}

LabelProgram(jump, chain, lpos, loc, extra) ==
    LET decl == <<Label("A")>>
        main == CASE lpos = "before" -> decl \o WrapChain(chain, <<jump>>)
                  [] lpos = "after" -> WrapChain(chain, <<jump>>) \o decl
                  [] lpos = "inner" -> WrapChain(chain, decl \o <<jump>>)
                  [] OTHER -> WrapChain(chain, <<jump>>)
        other == IF lpos = "other" THEN decl ELSE <<>>
    IN CASE loc = "body" ->
              Program(extra \o main,
                      IF other = <<>> THEN <<>> ELSE <<SubDef(Name("S", ""), <<>>, other)>>,
                      <<>>, <<>>)
         [] loc = "sub" ->
              Program(extra \o other, <<SubDef(Name("S", ""), <<>>, main)>>, <<>>, <<>>)
         [] loc = "function" ->
              Program(extra \o other, <<>>,
                      <<FunctionDef(Name("F", ""), <<>>, "Inferred", main)>>, <<>>)

LabelPositions == {"none", "before", "after", "inner", "other"}
Places == {"body", "sub", "function"}

LabelPrograms ==
    {LabelProgram(jump, chain, lpos, loc, <<>>) :
        jump \in Jumps, chain \in Chains(MaxDepth), lpos \in LabelPositions,
        loc \in Places}
    \cup
    {LabelProgram(jump, <<>>, lpos, loc, <<extra>>) :
        jump \in Jumps, lpos \in LabelPositions, loc \in Places,
        extra \in {Goto("A"), Gosub("B")}}

InitLabels == InitSema(LabelPrograms)

SpecLabels == InitLabels /\ [][NextSema]_vars

(***************************************************************************)
(* Programs with variables: up to MaxBody module-level statements that     *)
(* declare, assign and read X (no sigil) and X% as scalars and arrays,     *)
(* and at most one SUB with a parameter X or one FUNCTION.                 *)
(***************************************************************************)

MaxBody == 2

X == Name("X", "")
XI == Name("X", "%")

TypeStmts ==
    {Let(n, e) : n \in {X, XI}, e \in {IntLiteral, StringLiteral}}
    \cup {Dim(X, ty, d) : ty \in {"Integer", "String", "Inferred"},
                          d \in {<<>>, <<IntLiteral>>}}
    \cup {Dim(XI, ty, d) : ty \in {"Integer", "Long", "Single", "Double"},
                           d \in {<<>>, <<IntLiteral>>}}
    \cup {LineInput(X), For(X, IntLiteral, IntLiteral, <<>>),
          ArrayAssign(X, <<IntLiteral>>, IntLiteral)}

TypeBodies == UNION {[1..n -> TypeStmts] : n \in 0..MaxBody}

TypeDefinitions ==
    {[subs |-> <<>>, functions |-> <<>>],
     [subs |-> <<SubDef(Name("S", ""), <<Param(X, "String")>>, <<Let(X, IntLiteral)>>)>>,
      functions |-> <<>>],
     [subs |-> <<SubDef(Name("S", ""), <<Param(X, "Integer")>>, <<Let(X, StringLiteral)>>)>>,
      functions |-> <<>>],
     [subs |-> <<>>,
      functions |-> <<FunctionDef(Name("F", "%"), <<>>, "Integer",
                                  <<Let(Name("F", "%"), IntLiteral)>>)>>]}

TypePrograms ==
    {Program(body, d.subs, d.functions, <<>>) : body \in TypeBodies, d \in TypeDefinitions}

InitTypes == InitSema(TypePrograms)

SpecTypes == InitTypes /\ [][NextSema]_vars

(***************************************************************************)
(* Programs for the checks of analyze: labels A and B declared any number  *)
(* of times in the module body, a SUB and a FUNCTION; TYPE and SUB         *)
(* definitions with duplicates, repeated fields and undefined types;       *)
(* calls and element accesses with up to MaxArgs arguments; one EXIT       *)
(* statement under up to MaxDepth nested compound statements.              *)
(***************************************************************************)

MaxArgs == 2

LabelStmts == {Label("A"), Label("B"), Wrap("IfThen", <<Label("A")>>)}

DuplicateLabelPrograms ==
    {Program(body, ss, fs, <<>>) :
        body \in UNION {[1..n -> LabelStmts] : n \in 0..2},
        ss \in {<<>>} \cup {<<SubDef(Name("S", ""), <<>>, b)>> :
                               b \in UNION {[1..n -> LabelStmts] : n \in 0..1}},
        fs \in {<<>>} \cup {<<FunctionDef(Name("F", ""), <<>>, "Inferred", b)>> :
                               b \in UNION {[1..n -> LabelStmts] : n \in 0..1}}}

DeclarationPrograms ==
    LET tds == {TypeDef("T", <<TypeField("A", "Integer")>>),
                TypeDef("T", <<TypeField("B", "Integer"), TypeField("B", "String")>>),
                TypeDef("U", <<TypeField("A", "V"), TypeField("A", "Integer")>>)}
        sds == {SubDef(Name("S", ""), <<>>, <<>>),
                SubDef(Name("S", ""), <<Param(X, "V")>>, <<ExitFor>>)}
    IN {Program(body, ss, <<>>, ts) :
            body \in {<<>>, <<ExitFor>>, <<Dim(X, "V", <<>>)>>},
            ss \in UNION {[1..n -> sds] : n \in 0..2},
            ts \in UNION {[1..n -> tds] : n \in 0..2}}

Arguments == UNION {[1..n -> {IntLiteral}] : n \in 0..MaxArgs}

CallStmts ==
    {Dim(X, "Integer", <<IntLiteral>>), Dim(Name("F", ""), "Integer", <<IntLiteral>>),
     ArrayAssign(X, <<IntLiteral>>, IntLiteral),
     PrintStmt(<<FnCall(X, <<IntLiteral>>)>>)}
    \cup {CallSub(Name(n, ""), args) : n \in {"S", "F", "Q"}, args \in Arguments}
    \cup {Let(XI, FnCall(Name(n, ""), args)) : n \in {"F", "S", "Q"}, args \in Arguments}

CallPrograms ==
    {Program(body, d.subs, d.functions, <<>>) :
        body \in UNION {[1..n -> CallStmts] : n \in 1..2},
        d \in {[subs |-> <<>>, functions |-> <<>>],
               [subs |-> <<SubDef(Name("S", ""), <<Param(X, "Integer")>>,
                                  <<CallSub(Name("S", ""), <<>>)>>)>>,
                functions |-> <<FunctionDef(Name("F", ""), <<>>, "Integer",
                                            <<Let(XI, FnCall(Name("F", ""),
                                                             <<IntLiteral>>))>>)>>]}}

ExitStmts == {ExitFor, ExitDo, ExitSub, ExitFunction}

ExitPrograms ==
    {LabelProgram(exit, chain, "none", loc, <<>>) :
        exit \in ExitStmts, chain \in Chains(MaxDepth), loc \in Places}

CheckPrograms ==
    DuplicateLabelPrograms \cup DeclarationPrograms \cup CallPrograms \cup ExitPrograms

InitChecks == InitSema(CheckPrograms)

SpecChecks == InitChecks /\ [][NextSema]_vars

\* two TYPEs whose fields name TYPEs that are not defined
UndefinedFieldPrograms ==
    {Program(<<>>, <<>>, <<>>, ts) :
        ts \in {<<TypeDef("T", <<TypeField("C", "V")>>),
                  TypeDef("U", <<TypeField("D", "W"), TypeField("E", "T")>>)>>,
                <<TypeDef("T", <<TypeField("C", "V"), TypeField("D", "W")>>)>>}}

AgainPrograms ==
    TypePrograms \cup DeclarationPrograms \cup DuplicateLabelPrograms
    \cup UndefinedFieldPrograms
    \cup {LabelProgram(jump, <<>>, lpos, loc, <<>>) :
             jump \in Jumps, lpos \in LabelPositions, loc \in Places}

InitAgain == InitSema(AgainPrograms)

SpecAgain == InitAgain /\ [][NextAgain]_vars

(***************************************************************************)
(* The driver after analyze: compile if there are no errors, one step for  *)
(* basic_program_entry and one for each SUB and FUNCTION body; then the    *)
(* generated basic_program_entry runs, one basic block per step.  A call   *)
(* instruction runs its callee to completion inside the step.              *)
(***************************************************************************)

\* the GOSUBs the running program may have entered and not returned from
MaxStack == 3

\* compile: the loops over program.subs and program.functions
CompileAfter(p) ==
    IF p = "analyzed" /\ program.subs # <<>> THEN "sub_bodies"
    ELSE IF p \in {"analyzed", "sub_bodies"} /\ program.functions # <<>>
         THEN "function_bodies"
         ELSE "compiled"

CompileStepTo(list) ==
    IF idx < Len(list)
    THEN pass' = pass /\ idx' = idx + 1
    ELSE pass' = CompileAfter(pass) /\ idx' = 1

\* main, after analyze found no error: Codegen::new and compile up to the
\* exit block of basic_program_entry
Compile ==
    /\ pass = "analyzed"
    /\ errors = <<>>
    /\ command \in {"DumpIr", "Build", "Firmware"}
    /\ codegen' = compile_entry(NewCodegen, program, SA)
    /\ pass' = CompileAfter("analyzed")
    /\ idx' = 1
    /\ UNCHANGED <<srcVars, program, semaVars, pc, gosub_return_idx, call_stack>>

\* compile: the next SUB body
CompileSubBody ==
    /\ pass = "sub_bodies"
    /\ codegen' = compile_sub_body(codegen, program.subs[idx])
    /\ CompileStepTo(program.subs)
    /\ UNCHANGED <<srcVars, program, semaVars, pc, gosub_return_idx, call_stack>>

\* compile: the next FUNCTION body
CompileFunctionBody ==
    /\ pass = "function_bodies"
    /\ codegen' = compile_function_body(codegen, program.functions[idx])
    /\ CompileStepTo(program.functions)
    /\ UNCHANGED <<srcVars, program, semaVars, pc, gosub_return_idx, call_stack>>

\* the entry block of basic_program_entry
EntryBlock ==
    CHOOSE bb \in 1..Len(codegen.module) :
        /\ codegen.module[bb].fn[1] = "basic_program_entry"
        /\ codegen.module[bb].name[1] = "entry"

\* the terminator the block at pc ends with, if any
Terminator == get_terminator(codegen, pc)

\* the index the block at pc stores to the gosub_return_idx slot, if any
StoredIdx ==
    LET insts == codegen.module[pc].insts
        stores == {j \in 1..Len(insts) : insts[j].op = "store_return_idx"}
    IN IF stores = {} THEN <<>>
       ELSE <<insts[CHOOSE j \in stores : \A k \in stores : k <= j].v>>

\* the return block registered for index i
ReturnBlock(i) ==
    LET points == codegen.gosub_return_points
    IN points[CHOOSE j \in 1..Len(points) : points[j][1] = i][2]

\* the runtime calls basic_program_entry
Enter ==
    /\ pass = "compiled"
    /\ pass' = "running"
    /\ pc' = EntryBlock
    /\ gosub_return_idx' = 0
    /\ call_stack' = <<>>
    /\ UNCHANGED <<srcVars, program, idx, semaVars, codegen>>

\* a block that ends with br and stores no return index
ExecBranch ==
    /\ pass = "running"
    /\ Terminator # <<>> /\ Terminator[1].op = "br"
    /\ StoredIdx = <<>>
    /\ pc' = Terminator[1].to[1]
    /\ UNCHANGED <<srcVars, program, pass, idx, semaVars, codegen, gosub_return_idx, call_stack>>

\* the block of a GOSUB: store the index of its return block, branch to the
\* label; the subroutine is entered
ExecGosub ==
    /\ pass = "running"
    /\ Terminator # <<>> /\ Terminator[1].op = "br"
    /\ StoredIdx # <<>>
    /\ Len(call_stack) < MaxStack
    /\ gosub_return_idx' = StoredIdx[1]
    /\ call_stack' = Append(call_stack, ReturnBlock(StoredIdx[1]))
    /\ pc' = Terminator[1].to[1]
    /\ UNCHANGED <<srcVars, program, pass, idx, semaVars, codegen>>

\* a block that ends with a conditional branch: either way
ExecConditionalBranch ==
    /\ pass = "running"
    /\ Terminator # <<>> /\ Terminator[1].op = "condbr"
    /\ \E j \in 1..2 : pc' = Terminator[1].to[j]
    /\ UNCHANGED <<srcVars, program, pass, idx, semaVars, codegen, gosub_return_idx, call_stack>>

\* the dispatch block, reached from a RETURN: switch over the slot
ExecSwitch ==
    /\ pass = "running"
    /\ Terminator # <<>> /\ Terminator[1].op = "switch"
    /\ LET cases == Terminator[1].cases
           hit == {j \in 1..Len(cases) : cases[j][1] = gosub_return_idx}
       IN pc' = IF hit = {} THEN Terminator[1].to[1]
                ELSE cases[CHOOSE j \in hit : \A k \in hit : j <= k][2]
    /\ call_stack' = IF call_stack = <<>> THEN <<>>
                     ELSE SubSeq(call_stack, 1, Len(call_stack) - 1)
    /\ UNCHANGED <<srcVars, program, pass, idx, semaVars, codegen, gosub_return_idx>>

\* ret: basic_program_entry returns to the runtime
ExecReturn ==
    /\ pass = "running"
    /\ Terminator # <<>> /\ Terminator[1].op = "ret"
    /\ pass' = "exited"
    /\ pc' = 0
    /\ UNCHANGED <<srcVars, program, idx, semaVars, codegen, gosub_return_idx, call_stack>>

\* the arr_overflow block: rb_panic does not return
ExecPanic ==
    /\ pass = "running"
    /\ Terminator # <<>> /\ Terminator[1].op = "unreachable"
    /\ pass' = "panicked"
    /\ pc' = 0
    /\ UNCHANGED <<srcVars, program, idx, semaVars, codegen, gosub_return_idx, call_stack>>

\* a block without terminator: what runs next is whatever the backend laid
\* out after it, any block of the module, or the program stops
ExecFallOff ==
    /\ pass = "running"
    /\ Terminator = <<>>
    /\ \/ pc' \in 1..Len(codegen.module) /\ pass' = pass
       \/ pc' = 0 /\ pass' = "exited"
    /\ UNCHANGED <<srcVars, program, idx, semaVars, codegen, gosub_return_idx, call_stack>>

NextGen ==
    \/ Compile
    \/ CompileSubBody
    \/ CompileFunctionBody
    \/ Enter
    \/ ExecBranch
    \/ ExecGosub
    \/ ExecConditionalBranch
    \/ ExecSwitch
    \/ ExecReturn
    \/ ExecPanic
    \/ ExecFallOff

Next == NextSema \/ NextGen

(***************************************************************************)
(* main (rustybasic-driver/src/main.rs): tokenize, parse, analyze (the     *)
(* passes above), then the command: nothing more for Check and Flash,      *)
(* compile for DumpIr, Build and Firmware, and write_object_file for Build *)
(* and Firmware.  pass = "failed" is std::process::exit(1).                *)
(***************************************************************************)

Commands == {"Check", "DumpIr", "Build", "Firmware", "Flash"}

\* `let tokens = match tokenize(&source)`
Tokenize ==
    /\ pass = "lex"
    /\ LET lexed == tokenize(source) IN
       IF lexed.ok
       THEN tokens' = lexed.tokens /\ pass' = "parse" /\ diagnostics' = diagnostics
       ELSE tokens' = tokens /\ pass' = "failed"
            /\ diagnostics' = <<lexed.message>>
    /\ UNCHANGED <<includeVars, source, command, previous, cursor, program, idx, semaVars, genVars>>

\* Parsed as it would be if main went on to analyze after a ParseError
ParsedOrNot(r) ==
    /\ program' = IF r.ok THEN r.v ELSE program
    /\ pass' = "types"
    /\ diagnostics' = diagnostics

\* `let program = match parse(tokens)`, r being what parse returned; then
\* analyze begins
Parsed(r) ==
    IF r.ok
    THEN program' = r.v /\ pass' = "types" /\ diagnostics' = diagnostics
    ELSE program' = program /\ pass' = "failed" /\ diagnostics' = <<r.message>>

Parse ==
    /\ pass = "parse"
    /\ Parsed(parse(tokens))
    /\ UNCHANGED <<includeVars, source, tokens, command, previous, cursor, idx, semaVars, genVars>>

\* `if sema_result.has_errors()`: the diagnostics are emitted
ReportErrors ==
    /\ pass = "analyzed"
    /\ errors # <<>>
    /\ diagnostics' = [i \in 1..Len(errors) |-> errors[i].message]
    /\ pass' = "failed"
    /\ UNCHANGED <<includeVars, source, tokens, command, previous, cursor, program, idx, semaVars, genVars>>

\* Commands::Check and Commands::Flash make no Codegen
CheckOrFlash ==
    /\ pass = "analyzed"
    /\ errors = <<>>
    /\ command \in {"Check", "Flash"}
    /\ pass' = "done"
    /\ UNCHANGED <<srcVars, program, idx, semaVars, genVars>>

\* Commands::DumpIr, after compile
DumpIr ==
    /\ pass = "compiled"
    /\ command = "DumpIr"
    /\ pass' = "dumped"
    /\ UNCHANGED <<srcVars, program, idx, semaVars, genVars>>

\* Commands::Build and Commands::Firmware, after compile
WriteObjectFile ==
    /\ pass = "compiled"
    /\ command \in {"Build", "Firmware"}
    /\ pass' = "written"
    /\ UNCHANGED <<srcVars, program, idx, semaVars, genVars>>

NextDriver ==
    \/ Tokenize
    \/ Parse
    \/ NextSema
    \/ ReportErrors
    \/ CheckOrFlash
    \/ Compile
    \/ CompileSubBody
    \/ CompileFunctionBody
    \/ DumpIr
    \/ WriteObjectFile

InitDriver(sources, commands) ==
    /\ files = <<>>
    /\ visited = {}
    /\ frames = <<>>
    /\ source \in sources
    /\ tokens = <<>>
    /\ command \in commands
    /\ diagnostics = <<>>
    /\ previous = <<>>
    /\ cursor = NoCursor
    /\ program = Program(<<>>, <<>>, <<>>, <<>>)
    /\ pass = "lex"
    /\ idx = 1
    /\ variables = NewAnalyzer.variables
    /\ labels = NewAnalyzer.labels
    /\ goto_targets = NewAnalyzer.goto_targets
    /\ gosub_targets = NewAnalyzer.gosub_targets
    /\ has_gosub = NewAnalyzer.has_gosub
    /\ subs = NewAnalyzer.subs
    /\ functions = NewAnalyzer.functions
    /\ types = NewAnalyzer.types
    /\ constants = NewAnalyzer.constants
    /\ scope_stack = NewAnalyzer.scope_stack
    /\ errors = NewAnalyzer.errors
    /\ codegen = NewCodegen
    /\ pc = 0
    /\ gosub_return_idx = 0
    /\ call_stack = <<>>

(***************************************************************************)
(* Source texts: up to MaxLines lines with numeric and named labels and    *)
(* jumps to them, at module level and in a SUB and a FUNCTION; an          *)
(* assignment of an expression of up to MaxOperands operands, each with an *)
(* optional prefix operator, and binary operators of every level; other    *)
(* assignments and calls; PRINT of an interpolated string of up to         *)
(* MaxParts text and placeholder segments; and texts that tokenize or      *)
(* parse rejects.                                                          *)
(***************************************************************************)

MaxLines == 2
MaxOperands == 3
MaxParts == 3

RECURSIVE Join(_)
Join(pieces) == IF pieces = <<>> THEN <<>> ELSE Head(pieces) \o Join(Tail(pieces))

Line(lexemes) == lexemes \o <<EndOfLine>>

LabelLines ==
    {Line(<<Number("10")>>),
     Line(<<Number("10"), Word("PRINT"), Quoted(<<"x">>)>>),
     Line(<<Number("20"), Word("RETURN")>>),
     Line(<<Word("goto"), Number("10")>>),
     Line(<<Word("GOSUB"), Number("20")>>),
     Line(<<Word("END")>>),
     Line(<<Word("A"), Symbol(":")>>),
     Line(<<Word("GOTO"), Word("A")>>)}

LabelTexts == {Join(t) : t \in UNION {[1..n -> LabelLines] : n \in 1..MaxLines}}

SubSource(body) ==
    Line(<<Word("SUB"), Word("S"), Symbol("("), Word("x"), Word("AS"),
           Word("INTEGER"), Symbol(")")>>)
    \o body \o Line(<<Word("END"), Word("SUB")>>)

FunctionSource(body) ==
    Line(<<Word("FUNCTION"), SigilWord("F", "%"), Symbol("("), Symbol(")")>>)
    \o body \o Line(<<Word("END"), Word("FUNCTION")>>)

DefinitionSources ==
    {main \o def : main \in {<<>>, Line(<<Word("S"), Number("1")>>)},
                   def \in {SubSource(b) : b \in LabelLines}}
    \cup {FunctionSource(b) : b \in LabelLines}
    \cup {SubSource(b) \o FunctionSource(b) : b \in LabelLines}

Operands == <<"A", "B", "C", "D", "E">>
Prefixes == {<<>>, <<Symbol("-")>>, <<Word("NOT")>>}
Operators ==
    {Word("OR"), Word("AND"), Symbol("="), Symbol("<>"), Symbol("+"),
     Symbol("-"), Symbol("*"), Symbol("\\"), Word("MOD"), Symbol("^")}

\* operand i with its prefix, and what follows it
RECURSIVE ExprText(_, _, _)
ExprText(pre, ops, i) ==
    pre[i] \o <<Word(Operands[i])>>
    \o (IF i < Len(pre) THEN <<ops[i]>> \o ExprText(pre, ops, i + 1) ELSE <<>>)

ExprSources ==
    {Line(<<Word("x"), Symbol("=")>> \o ExprText(pre, ops, 1)) :
        pre \in UNION {[1..n -> Prefixes] : n \in 1..MaxOperands},
        ops \in [1..(MaxOperands - 1) -> Operators]}

\* assignments with parentheses and calls, LET, an element assignment, a call
StatementSources ==
         {Line(<<Word("x"), Symbol("="), Symbol("("), Word("A"), Symbol("+"),
                 Word("B"), Symbol(")"), Symbol("*"), Word("C")>>),
          Line(<<Word("x"), Symbol("="), Word("F"), Symbol("("), Word("A"),
                 Symbol(","), Word("B"), Symbol("+"), Word("C"), Symbol(")")>>),
          Line(<<Word("LET"), SigilWord("X", "%"), Symbol("="), Number("1")>>),
          Line(<<SigilWord("A", "$"), Symbol("("), Number("1"), Symbol(")"),
                 Symbol("="), Quoted(<<>>)>>),
          Line(<<Word("S"), Symbol("("), Number("1"), Symbol(")")>>),
          Line(<<Word("x"), Symbol("="), Symbol("-"), Word("A"), Symbol("^"),
                 Word("B"), Word("MOD"), Number("2")>>)}

Segments ==
    {<<Word("x"), Symbol("=")>>,
     <<Symbol("{"), Word("n"), Symbol("}")>>,
     <<Symbol("{"), Word("N"), Symbol("+"), Number("1"), Symbol("}")>>}

Templates ==
    {Join(t) : t \in UNION {[1..n -> Segments] : n \in 0..MaxParts}}
    \cup {<<Symbol("{"), Symbol("}")>>,
          <<Symbol("{"), Symbol("?"), Symbol("}")>>,
          <<Word("x"), Symbol("{"), Word("N")>>}

TemplateSources == {Line(<<Word("print"), Interpolated(t)>>) : t \in Templates}

ErrorSources ==
    {<<Word("PRINT"), Unterminated("unterminated string")>>,
     <<Word("PRINT"), Unterminated("unterminated template")>>,
     Line(<<Word("X"), Symbol("="), Symbol("?")>>),
     Line(<<Number("1x")>>),
     Line(<<Word("GOTO")>>),
     Line(<<Symbol("+")>>),
     Line(<<Word("X"), Symbol("="), Symbol("("), Word("A")>>),
     Line(<<Word("SUB"), Word("S")>>) \o Line(<<Word("END")>>),
     Line(<<Word("X"), Symbol("="), Quoted(<<"x">>), Symbol("*"), Number("2")>>)}

Sources ==
    LabelTexts \cup DefinitionSources \cup StatementSources
    \cup TemplateSources \cup ErrorSources

InitMain == InitDriver(Sources, Commands)

SpecMain == InitMain /\ [][NextDriver]_vars

\* tokenize and parse alone, of the assignments of an expression
NextParse ==
    \/ Tokenize
    \/ Parse

InitParse == InitDriver(ExprSources, {"Check"})

SpecParse == InitParse /\ [][NextParse]_vars

(***************************************************************************)
(* INCLUDE preprocessing (rustybasic-driver/src/main.rs, resolve_includes). *)
(* A path is the sequence of its components and the file system maps the   *)
(* canonical path of a file to its text; a directory is a proper prefix of *)
(* the path of a file.  frames is the stack of the calls of                *)
(* resolve_includes that have not returned: each holds its path, its       *)
(* canonical path, the lines of its file, the index of the line it is at   *)
(* and its output so far.  A failure returns through every caller by `?`,  *)
(* and main exits with it.                                                 *)
(***************************************************************************)

\* cli.source
Root == <<"a.bas">>

\* Path::parent and Path::join of a relative path
parent(path) == SubSeq(path, 1, Len(path) - 1)
join(base, rel) == base \o rel

IsFile(fs, path) == path \in DOMAIN fs
IsDirectory(fs, path) ==
    \E f \in DOMAIN fs : Len(f) > Len(path) /\ SubSeq(f, 1, Len(path)) = path

\* Path::canonicalize: . and .. are resolved from left to right, every
\* component but the last names a directory, and the whole names a file or
\* a directory; <<>> when it fails
RECURSIVE canonicalize_from(_, _, _)
canonicalize_from(fs, path, at) ==
    IF path = <<>>
    THEN IF IsFile(fs, at) \/ IsDirectory(fs, at) THEN <<at>> ELSE <<>>
    ELSE IF ~IsDirectory(fs, at) THEN <<>>
    ELSE IF Head(path) = "." THEN canonicalize_from(fs, Tail(path), at)
    ELSE IF Head(path) = ".."
         THEN canonicalize_from(fs, Tail(path), IF at = <<>> THEN at ELSE parent(at))
    ELSE canonicalize_from(fs, Tail(path), Append(at, Head(path)))
canonicalize(fs, path) == canonicalize_from(fs, path, <<>>)

\* str::lines: the text between line ends, and a last line with no line end
RECURSIVE lines_from(_, _, _)
lines_from(text, line, out) ==
    IF text = <<>> THEN IF line = <<>> THEN out ELSE Append(out, line)
    ELSE IF Head(text).k = "newline" THEN lines_from(Tail(text), <<>>, Append(out, line))
    ELSE lines_from(Tail(text), Append(line, Head(text)), out)
lines(text) == lines_from(text, <<>>, <<>>)

ends_with_newline(text) == text # <<>> /\ text[Len(text)].k = "newline"

\* parse_include_directive: Some(filename) for INCLUDE in any case followed
\* by a closed, non-empty quoted name, whatever follows it
parse_include_directive(line) ==
    IF /\ Len(line) >= 2
       /\ line[1].k = "word" /\ line[1].sigil = ""
       /\ to_uppercase(line[1].text) = "INCLUDE"
       /\ line[2].k = "string" /\ line[2].chars # <<>>
    THEN <<line[2].chars>>
    ELSE <<>>

\* remove as it would be if the file stayed in the visited set
keep(set, canonical) == set
\* visited.remove(&canonical)
remove(set, canonical) == set \ {canonical}

Frame(path, canonical, content) ==
    [path |-> path, canonical |-> canonical, lines |-> lines(content),
     i |-> 1, output |-> <<>>]

\* an Err returned by resolve_includes reaches main through every `?`
Bail(message) ==
    /\ pass' = "failed"
    /\ diagnostics' = <<"failed to read", message>>
    /\ frames' = <<>>
    /\ source' = source

\* the beginning of resolve_includes(path, visited), up to its loop
resolve_includes(path) ==
    LET canonical == canonicalize(files, path) IN
    IF canonical = <<>>
    THEN Bail("cannot resolve path") /\ visited' = visited
    ELSE IF canonical[1] \in visited
    THEN Bail("circular INCLUDE detected") /\ visited' = visited
    ELSE /\ visited' = visited \cup {canonical[1]}
         /\ IF IsFile(files, canonical[1])
            THEN /\ frames' = Append(frames, Frame(path, canonical[1], files[canonical[1]]))
                 /\ UNCHANGED <<pass, diagnostics, source>>
            ELSE Bail("failed to read")

\* main: resolve_includes(&cli.source, &mut HashSet::new())
ResolveIncludes ==
    /\ pass = "include"
    /\ frames = <<>>
    /\ visited = {}
    /\ resolve_includes(Root)
    /\ UNCHANGED <<files, tokens, command, previous, cursor, program, idx, semaVars, genVars>>

Top == frames[Len(frames)]

\* a line that is an INCLUDE directive: the recursive call
Include ==
    /\ pass = "include"
    /\ frames # <<>>
    /\ Top.i <= Len(Top.lines)
    /\ parse_include_directive(Top.lines[Top.i]) # <<>>
    /\ resolve_includes(join(parent(Top.path), parse_include_directive(Top.lines[Top.i])[1]))
    /\ UNCHANGED <<files, tokens, command, previous, cursor, program, idx, semaVars, genVars>>

\* any other line: output.push_str(line); output.push('\n')
CopyLine ==
    /\ pass = "include"
    /\ frames # <<>>
    /\ Top.i <= Len(Top.lines)
    /\ parse_include_directive(Top.lines[Top.i]) = <<>>
    /\ frames' = [frames EXCEPT ![Len(frames)] =
                    [@ EXCEPT !.i = @ + 1,
                              !.output = @ \o Top.lines[Top.i] \o <<EndOfLine>>]]
    /\ UNCHANGED <<files, visited, source, tokens, command, diagnostics,
                   previous, cursor, program, pass, idx, semaVars, genVars>>

\* the caller's output after the call returned included_source
Included(output, included_source) ==
    output \o included_source
    \o (IF ends_with_newline(included_source) THEN <<>> ELSE <<EndOfLine>>)

\* the end of the loop: visited.remove(&canonical); Ok(output), to the
\* caller or to main
ReturnOutput ==
    /\ pass = "include"
    /\ frames # <<>>
    /\ Top.i > Len(Top.lines)
    /\ visited' = remove(visited, Top.canonical)
    /\ IF Len(frames) > 1
       THEN /\ frames' = [SubSeq(frames, 1, Len(frames) - 1) EXCEPT ![Len(frames) - 1] =
                            [@ EXCEPT !.i = @ + 1,
                                      !.output = Included(@, Top.output)]]
            /\ UNCHANGED <<source, pass>>
       ELSE /\ frames' = <<>>
            /\ source' = Top.output
            /\ pass' = "lex"
    /\ UNCHANGED <<files, tokens, command, diagnostics, previous, cursor, program,
                   idx, semaVars, genVars>>

NextInclude ==
    \/ ResolveIncludes
    \/ Include
    \/ CopyLine
    \/ ReturnOutput

(***************************************************************************)
(* File systems: a.bas, the file main is given, b.bas and lib/c.bas, each  *)
(* of up to MaxFileLines lines (lib/c.bas of one): text, INCLUDE           *)
(* directives that name one another, themselves, a file that does not      *)
(* exist (lib/d.bas) and a directory, and an INCLUDE with an empty name.   *)
(***************************************************************************)

MaxFileLines == 2

Directive(word, path) == <<Word(word), Quoted(path)>>
TextLine == <<Word("PRINT"), Quoted(<<"x">>)>>

LinesOfA ==
    {TextLine,
     Directive("INCLUDE", <<"b.bas">>),
     Directive("Include", <<"lib", "c.bas">>),
     Directive("include", <<".", "a.bas">>)}
LinesOfB ==
    {Directive("INCLUDE", <<>>),
     Directive("INCLUDE", <<"lib", "c.bas">>),
     Directive("INCLUDE", <<"lib", "..", "a.bas">>)}
TextsOfC ==
    {<<>>,
     <<Word("END")>>,
     Line(Directive("INCLUDE", <<"..", "b.bas">>)),
     Line(Directive("INCLUDE", <<"c.bas">>)),
     Line(Directive("INCLUDE", <<"d.bas">>)),
     Line(Directive("INCLUDE", <<"..">>))}

TextsOf(choices) ==
    {Join(t) : t \in UNION {[1..n -> {Line(l) : l \in choices}] : n \in 0..MaxFileLines}}

FileSystems ==
    {(<<"a.bas">> :> a) @@ (<<"b.bas">> :> b) @@ (<<"lib", "c.bas">> :> c) :
        a \in TextsOf(LinesOfA), b \in TextsOf(LinesOfB), c \in TextsOfC}

InitInclude ==
    /\ files \in FileSystems
    /\ visited = {}
    /\ frames = <<>>
    /\ source = <<>>
    /\ tokens = <<>>
    /\ command = "Check"
    /\ diagnostics = <<>>
    /\ previous = <<>>
    /\ cursor = NoCursor
    /\ program = Program(<<>>, <<>>, <<>>, <<>>)
    /\ pass = "include"
    /\ idx = 1
    /\ variables = NewAnalyzer.variables
    /\ labels = NewAnalyzer.labels
    /\ goto_targets = NewAnalyzer.goto_targets
    /\ gosub_targets = NewAnalyzer.gosub_targets
    /\ has_gosub = NewAnalyzer.has_gosub
    /\ subs = NewAnalyzer.subs
    /\ functions = NewAnalyzer.functions
    /\ types = NewAnalyzer.types
    /\ constants = NewAnalyzer.constants
    /\ scope_stack = NewAnalyzer.scope_stack
    /\ errors = NewAnalyzer.errors
    /\ codegen = NewCodegen
    /\ pc = 0
    /\ gosub_return_idx = 0
    /\ call_stack = <<>>

\* every step that can be taken is taken: the process runs until it ends
SpecInclude == InitInclude /\ [][NextInclude]_vars /\ WF_vars(NextInclude)

\* analyze and compile
NextCompile ==
    \/ NextSema
    \/ Compile
    \/ CompileSubBody
    \/ CompileFunctionBody

\* of the programs with jumps and labels
SpecJumps == InitLabels /\ [][NextCompile]_vars

\* Programs with loops: a loop that holds a loop with an EXIT and then an
\* EXIT, in the module body, a SUB or a FUNCTION; and the programs with one
\* EXIT under up to MaxDepth compound statements
Loops(body) ==
    {For(Name("I", ""), IntLiteral, IntLiteral, body),
     DoLoop(<<IntLiteral>>, <<>>, body), DoLoop(<<>>, <<IntLiteral>>, body),
     DoLoop(<<>>, <<>>, body), While(IntLiteral, body)}

LoopBodies ==
    UNION {Loops(<<inner, e2>>) \cup Loops(<<e2, inner>>) :
              inner \in UNION {Loops(<<e1>>) : e1 \in {ExitFor, ExitDo}},
              e2 \in {ExitFor, ExitDo}}

LoopPrograms ==
    ExitPrograms
    \cup {Program(<<l>>, <<>>, <<>>, <<>>) : l \in LoopBodies}
    \cup {Program(<<l>>, <<SubDef(Name("S", ""), <<>>, <<m>>)>>, <<>>, <<>>) :
             l \in Loops(<<>>), m \in LoopBodies}
    \cup {Program(<<>>, <<>>, <<FunctionDef(Name("F", ""), <<>>, "Inferred", <<l>>)>>, <<>>) :
             l \in LoopBodies}

InitLoops == InitSema(LoopPrograms)

SpecLoops == InitLoops /\ [][NextCompile]_vars

\* Programs with scalar variables: up to MaxSlotStmts statements that assign
\* and read X, in the module body, in a SUB body or in a FUNCTION body
MaxSlotStmts == 2

SlotStmts ==
    {Let(X, IntLiteral), Let(X, BinaryOp("Add", Variable(X), IntLiteral)),
     PrintStmt(<<Variable(X)>>), Dim(X, "Integer", <<>>),
     If(IntLiteral, <<Let(X, IntLiteral)>>, <<>>, <<>>),
     For(X, Variable(X), IntLiteral, <<>>)}

SlotBodies == UNION {[1..n -> SlotStmts] : n \in 1..MaxSlotStmts}

SlotPrograms ==
    {Program(body, <<>>, <<>>, <<>>) : body \in SlotBodies}
    \cup {Program(<<>>, <<SubDef(Name("S", ""), <<>>, body)>>, <<>>, <<>>) :
             body \in SlotBodies}
    \cup {Program(<<>>, <<>>, <<FunctionDef(Name("F", ""), <<>>, "Inferred", body)>>,
                  <<>>) : body \in SlotBodies}

InitSlots == InitSema(SlotPrograms)

SpecSlots == InitSlots /\ [][NextCompile]_vars

\* Programs that print one expression: a literal, X, X%, a call of a
\* built-in function or of FUNCTION F, the negation of one of these, or a
\* binary operator on two of these; X is declared AS INTEGER first, or not;
\* with an empty SUB S and an empty FUNCTION F
BinOps ==
    {"Add", "Sub", "Mul", "Div", "IntDiv", "Mod", "Pow", "And", "Or", "Xor"}
    \cup ComparisonOps

InferOperands ==
    {IntLiteral, FloatLiteral, StringLiteral, Variable(X), Variable(XI),
     FnCall(Name("CINT", ""), <<FloatLiteral>>), FnCall(Name("LEN", ""), <<StringLiteral>>),
     FnCall(Name("F", ""), <<>>)}

InferExprs ==
    InferOperands
    \cup {UnaryOp("Neg", e) : e \in InferOperands}
    \cup {BinaryOp(op, l, r) : op \in BinOps, l \in InferOperands, r \in InferOperands}

InferPrograms ==
    {Program(declaration \o <<PrintStmt(<<e>>)>>,
             <<SubDef(Name("S", ""), <<>>, <<>>)>>,
             <<FunctionDef(Name("F", ""), <<>>, "Integer", <<>>)>>, <<>>) :
        declaration \in {<<>>, <<Dim(X, "Integer", <<>>)>>}, e \in InferExprs}

InitInfer == InitSema(InferPrograms)

SpecInfer == InitInfer /\ [][NextCompile]_vars

\* Programs with arrays: A$ and X% of one or two dimensions, and one
\* assignment to an element of one of them whose right-hand side is a
\* literal, an element of A$ or of X%, or a sum with such an element; in
\* the module body, a SUB body or a FUNCTION body
AS == Name("A", "$")

ArrayDims == {<<IntLiteral>>, <<IntLiteral, Variable(XI)>>}

ArrayRightSides(indices) ==
    {StringLiteral, IntLiteral, FnCall(AS, indices), FnCall(XI, indices),
     BinaryOp("Add", FnCall(AS, indices), StringLiteral),
     BinaryOp("Add", IntLiteral, FnCall(XI, indices))}

ArrayBodies ==
    {<<Dim(AS, "String", d), Dim(XI, "Integer", d), ArrayAssign(a, d, e)>> :
        d \in ArrayDims, a \in {AS, XI}, e \in UNION {ArrayRightSides(i) : i \in ArrayDims}}

ArrayPrograms ==
    {Program(body, <<>>, <<>>, <<>>) : body \in ArrayBodies}
    \cup {Program(<<>>, <<SubDef(Name("S", ""), <<>>, body)>>, <<>>, <<>>) :
             body \in ArrayBodies}
    \cup {Program(<<>>, <<>>, <<FunctionDef(Name("F", ""), <<>>, "Inferred", body)>>,
                  <<>>) : body \in ArrayBodies}

InitArrays == InitSema(ArrayPrograms)

SpecArrays == InitArrays /\ [][NextCompile]_vars

\* Token vectors: up to MaxPhrases phrases in any order - the opening and
\* the end of a WHILE block, a PRINT list, a TYPE with a field, an ENUM with
\* two members, a MACHINE with a STATE and a transition, a SUB with a
\* parameter, a DECLARE line, a call with two arguments, an empty line and
\* a stray comma
MaxPhrases == 3

Kind(k) == Token(k)
IdentToken(base) == [Token("Ident") EXCEPT !.name = Name(base, "")]
IntToken == [Token("IntLiteral") EXCEPT !.n = 1]

Phrases ==
    {<<Kind("While"), IntToken, Kind("Newline")>>,
     <<Kind("Wend"), Kind("Newline")>>,
     <<Kind("Print"), IdentToken("X"), Kind("Semicolon"), Kind("Comma"),
       IdentToken("X"), Kind("Newline")>>,
     <<IdentToken("TYPE"), IdentToken("X"), Kind("Newline"),
       IdentToken("X"), Kind("As"), Kind("IntegerType"), Kind("Newline")>>,
     <<Kind("End"), IdentToken("TYPE"), Kind("Newline")>>,
     <<Kind("Enum"), IdentToken("X"), Kind("Newline"),
       IdentToken("X"), Kind("Eq"), IntToken, Kind("Newline"),
       IdentToken("X"), Kind("Newline")>>,
     <<Kind("End"), Kind("Enum")>>,
     <<Kind("Machine"), IdentToken("X"), Kind("Newline"),
       IdentToken("STATE"), IdentToken("X"), Kind("Newline"),
       Kind("On"), IdentToken("X"), Kind("Goto"), IdentToken("X"), Kind("Newline")>>,
     <<Kind("End"), IdentToken("STATE"), Kind("Newline")>>,
     <<Kind("End"), Kind("Machine"), Kind("Newline")>>,
     <<Kind("Sub"), IdentToken("X"), Kind("LParen"), IdentToken("X"), Kind("RParen"),
       Kind("Newline")>>,
     <<Kind("End"), Kind("Sub"), Kind("Newline")>>,
     <<Kind("Declare"), Kind("Sub"), IdentToken("X")>>,
     <<IdentToken("X"), Kind("LParen"), IntToken, Kind("Comma"), IntToken,
       Kind("RParen")>>,
     <<Kind("Newline")>>,
     <<Kind("Comma")>>}

RECURSIVE Concat(_)
Concat(phrases) == IF phrases = <<>> THEN <<>> ELSE Head(phrases) \o Concat(Tail(phrases))

TokenVectors == {Concat(ps) : ps \in UNION {[1..n -> Phrases] : n \in 0..MaxPhrases}}

\* parse_program entered: `self.skip_blank_lines()` before its loop
InitCursor ==
    /\ files = <<>>
    /\ visited = {}
    /\ frames = <<>>
    /\ source = <<>>
    /\ tokens \in TokenVectors
    /\ command = "Check"
    /\ diagnostics = <<>>
    /\ previous = <<>>
    /\ cursor = Running(skip_blank_lines(NewParser(tokens)), <<"program">>)
    /\ program = Program(<<>>, <<>>, <<>>, <<>>)
    /\ pass = "parse"
    /\ idx = 1
    /\ variables = NewAnalyzer.variables
    /\ labels = NewAnalyzer.labels
    /\ goto_targets = NewAnalyzer.goto_targets
    /\ gosub_targets = NewAnalyzer.gosub_targets
    /\ has_gosub = NewAnalyzer.has_gosub
    /\ subs = NewAnalyzer.subs
    /\ functions = NewAnalyzer.functions
    /\ types = NewAnalyzer.types
    /\ constants = NewAnalyzer.constants
    /\ scope_stack = NewAnalyzer.scope_stack
    /\ errors = NewAnalyzer.errors
    /\ codegen = NewCodegen
    /\ pc = 0
    /\ gosub_return_idx = 0
    /\ call_stack = <<>>

\* a loop that can be iterated is iterated: WF_vars(NextCursor), with
\* ENABLED <<NextCursor>>_vars written as the guard of the iterations (an
\* iteration adds one to cursor.iterations)
CanIterate ==
    /\ cursor.outcome = ""
    /\ cursor.loops # <<>>
    /\ cursor.iterations < MaxIterations
IterationsAreFair == []<>(~CanIterate) \/ []<><<NextCursor>>_vars
SpecCursor == InitCursor /\ [][NextCursor]_vars /\ IterationsAreFair

(***************************************************************************)
(* Programs with subroutines: up to MaxMain statements, END, subroutine A  *)
(* (label A, up to one statement, RETURN), optionally subroutine B, and    *)
(* at most one SUB and one FUNCTION.                                       *)
(***************************************************************************)

MaxMain == 2

MainStmts ==
    {Gosub("A"), Gosub("B"), Goto("A"), Return, Let(X, IntLiteral),
     Dim(X, "Integer", <<IntLiteral>>), CallSub(Name("S", ""), <<>>),
     If(Variable(X), <<Gosub("A")>>, <<>>, <<>>),
     If(IntLiteral, <<Return>>, <<>>, <<Let(X, IntLiteral)>>),
     If(IntLiteral, <<>>, <<Clause(<<IntLiteral>>, <<Let(X, IntLiteral)>>)>>, <<>>),
     For(Name("I", ""), IntLiteral, IntLiteral, <<ExitFor>>),
     DoLoop(<<>>, <<IntLiteral>>, <<ExitDo>>),
     While(IntLiteral, <<Gosub("B")>>),
     SelectCase(IntLiteral, <<Clause(<<IntLiteral>>, <<Goto("A")>>)>>, <<End>>)}

MainBodies == UNION {[1..n -> MainStmts] : n \in 0..MaxMain}

SubroutineA ==
    {<<Label("A")>> \o b \o <<Return>> :
        b \in {<<>>, <<Gosub("B")>>, <<Let(X, IntLiteral)>>,
               <<If(IntLiteral, <<Return>>, <<>>, <<>>)>>}}

SubroutineB ==
    {<<>>, <<Label("B"), Return>>, <<Label("B"), Gosub("A"), Return>>}

GenDefinitions ==
    {[subs |-> <<>>, functions |-> <<>>],
     [subs |-> <<SubDef(Name("S", ""), <<Param(X, "Integer")>>,
                        <<Gosub("L"), ExitSub, Label("L"), Return>>)>>,
      functions |-> <<>>],
     [subs |-> <<SubDef(Name("S", ""), <<>>, <<Let(X, IntLiteral)>>)>>,
      functions |-> <<FunctionDef(Name("F", ""), <<>>, "Inferred",
                                  <<Let(Name("F", ""), IntLiteral), ExitFunction>>)>>],
     [subs |-> <<SubDef(Name("F", ""), <<>>, <<Let(X, IntLiteral)>>)>>,
      functions |-> <<FunctionDef(Name("F", ""), <<>>, "Inferred",
                                  <<Let(Name("F", ""), IntLiteral)>>)>>]}

GenPrograms ==
    {Program(main \o <<End>> \o a \o b, d.subs, d.functions, <<>>) :
        main \in MainBodies, a \in SubroutineA, b \in SubroutineB, d \in GenDefinitions}

InitGen == InitSema(GenPrograms)

SpecGen == InitGen /\ [][Next]_vars

Spec == SpecGen

(***************************************************************************)
(* Properties of analyze                                                   *)
(***************************************************************************)

\* every statement of a body, at any depth, in source order
RECURSIVE Flatten(_)
RECURSIVE FlattenClauses(_, _)
Flatten(body) ==
    IF body = <<>> THEN <<>>
    ELSE LET st == Head(body) IN
         <<st>> \o Flatten(st.body) \o FlattenClauses(st.clauses, 1)
               \o Flatten(st.else_body) \o Flatten(Tail(body))
FlattenClauses(cs, i) ==
    IF i > Len(cs) THEN <<>> ELSE Flatten(cs[i].body) \o FlattenClauses(cs, i + 1)

RECURSIVE FlattenDefs(_, _)
FlattenDefs(defs, i) ==
    IF i > Len(defs) THEN <<>> ELSE Flatten(defs[i].body) \o FlattenDefs(defs, i + 1)

\* every statement of the program: module body, SUB bodies, FUNCTION bodies
ProgramStatements(prog) ==
    Flatten(prog.body) \o FlattenDefs(prog.subs, 1) \o FlattenDefs(prog.functions, 1)

IsJump(st) == st.k \in {"Goto", "Gosub"}
JumpsOf(prog) == SelectSeq(ProgramStatements(prog), IsJump)

CountIn(q, P(_)) == Cardinality({i \in 1..Len(q) : P(q[i])})

\* C1: after analysis, for every GOTO or GOSUB anywhere in the program
\* (module body, SUB or FUNCTION body, at any depth of compound statements):
\* if there are no errors its target is in labels, and the targets that are
\* not in labels have one "undefined label" error for each jump to them.
C1_LabelClosure ==
    pass = "analyzed" =>
        LET jumps == JumpsOf(program) IN
        /\ errors = <<>> => \A i \in 1..Len(jumps) : jumps[i].target \in labels
        /\ \A i \in 1..Len(jumps) :
              LET t == jumps[i].target
                  ToT(st) == st.target = t
                  UndefinedT(e) == e = SemaError("undefined label", Name(t, ""))
              IN t \notin labels => CountIn(errors, UndefinedT) = CountIn(jumps, ToT)

\* a GOSUB two levels deep in a SUB body, its label declared after it, passes
C1_Witness ==
    /\ pass = "analyzed"
    /\ program = LabelProgram(Gosub("A"), <<"For", "IfElse">>, "after", "sub", <<>>)
    /\ errors = <<>>
    /\ "A" \in labels

NumericTypes == {"Integer", "Long", "Single", "Double"}
IsStringType(qb) == qb = "String"

\* the errors the step under way has added
NewErrors == SubSeq(errors', Len(errors) + 1, Len(errors'))

\* C6: a module-level assignment to a variable whose recorded type is not
\* Inferred, of a value of the other kind (numeric to String, String to
\* numeric), adds a semantic error.
C6_CrossKindAssignmentIsError ==
    [][(/\ pass = "body"
        /\ program.body[idx].k = "Let"
        /\ Has(variables, program.body[idx].name)
        /\ variables[program.body[idx].name].qb_type # "Inferred"
        /\ IsStringType(variables[program.body[idx].name].qb_type)
              # IsStringType(check_expr(SA, program.body[idx].expr[1]).t))
       => Len(errors') > Len(errors)]_vars

\* the names the module body uses as scalars, and those it declares as arrays
ScalarNames(body) ==
    {st.name : st \in {s \in SeqRange(Flatten(body)) :
                          \/ s.k \in {"Let", "For", "Input", "LineInput"}
                          \/ s.k = "Dim" /\ s.exprs = <<>>}}
ArrayNames(body) ==
    {st.name : st \in {s \in SeqRange(Flatten(body)) : s.k = "Dim" /\ s.exprs # <<>>}}

\* C7: in a program that passes analysis no name is used or declared as a
\* scalar and also declared as an array.
C7_NoScalarArrayName ==
    (pass = "analyzed" /\ errors = <<>>)
        => ScalarNames(program.body) \cap ArrayNames(program.body) = {}

\* C8: in a program that passes analysis, no step changes the storage type
\* of a variable whose recorded type is concrete.
C8_StorageTypeMonotone ==
    [][analyze(program).errors = <<>> =>
          \A n \in DOMAIN variables :
              variables[n].qb_type # "Inferred" =>
                  /\ n \in DOMAIN variables'
                  /\ VarTypeOf(variables'[n].qb_type) = VarTypeOf(variables[n].qb_type)]_vars

IsMismatchOf(e, name) == e.message = "type mismatch" /\ e.name = name

C10_InferredIsRefined ==
    [][(/\ pass = "body"
        /\ program.body[idx].k \in {"Let", "LineInput"}
        /\ Has(variables, program.body[idx].name)
        /\ variables[program.body[idx].name].qb_type = "Inferred"
        /\ (program.body[idx].k = "Let" => program.body[idx].var_type # "Inferred"))
       => LET st == program.body[idx]
              used == IF st.k = "LineInput" THEN "String" ELSE st.var_type
              Mismatch(e) == IsMismatchOf(e, st.name)
          IN /\ CountIn(NewErrors, Mismatch) = 0
             /\ variables'[st.name].qb_type = used]_vars

IsLabel(st) == st.k = "Label"

\* C11: after analysis, every label name declared n > 0 times in the program
\* (module body, SUB bodies and FUNCTION bodies together) has n - 1
\* "duplicate label" errors: none when it is declared once, one for each
\* declaration after the first otherwise.
C11_DuplicateLabels ==
    pass = "analyzed" =>
        LET decls == SelectSeq(ProgramStatements(program), IsLabel) IN
        \A i \in 1..Len(decls) :
            LET n == decls[i].target
                DeclaresN(st) == st.target = n
                DuplicateN(e) == e = SemaError("duplicate label", Name(n, ""))
            IN CountIn(errors, DuplicateN) = CountIn(decls, DeclaresN) - 1

\* label A declared in the module body, in the SUB and in the FUNCTION, and
\* label B once: two errors for A and none for B
C11_Witness ==
    /\ pass = "analyzed"
    /\ program.body = <<Label("A"), Label("B")>>
    /\ program.subs # <<>> /\ program.subs[1].body = <<Label("A")>>
    /\ program.functions # <<>>
    /\ program.functions[1].body = <<Wrap("IfThen", <<Label("A")>>)>>
    /\ errors = <<SemaError("duplicate label", Name("A", "")),
                  SemaError("duplicate label", Name("A", ""))>>

\* the errors with this message about this name
ErrorsAbout(message, name) ==
    {i \in 1..Len(errors) : errors[i] = SemaError(message, name)}

\* C12: after analysis the error list holds an error for every violation of
\* the program, whatever other errors there are: each field that repeats an
\* earlier field of its TYPE definition, each SUB parameter of an undefined
\* type, each module-level EXIT FOR and each module-level DIM of an undefined
\* type.
C12_AllErrorsReported ==
    pass = "analyzed" =>
        LET defined == {program.types[i].name : i \in 1..Len(program.types)} IN
        /\ \A i \in 1..Len(program.types) :
              LET fields == program.types[i].fields IN
              \A j \in 1..Len(fields) :
                  (\E k \in 1..(j - 1) : fields[k].name = fields[j].name)
                      => ErrorsAbout("duplicate field", Name(fields[j].name, "")) # {}
        /\ \A i \in 1..Len(program.subs) :
              LET params == program.subs[i].params IN
              \A j \in 1..Len(params) :
                  (params[j].param_type \notin BuiltinQBTypes \cup defined)
                      => ErrorsAbout("parameter has undefined TYPE", params[j].name) # {}
        /\ \A i \in 1..Len(program.body) :
              /\ program.body[i].k = "ExitFor"
                    => ErrorsAbout("EXIT FOR outside of FOR loop", NoName) # {}
              /\ (/\ program.body[i].k = "Dim"
                  /\ program.body[i].var_type \notin BuiltinQBTypes \cup defined)
                    => ErrorsAbout("undefined TYPE", program.body[i].name) # {}

\* the step under way adds an error with this message about this name
Reports(message, name) ==
    \E i \in 1..Len(NewErrors) : NewErrors[i] = SemaError(message, name)

\* C13: a module-level element assignment X(i) = e, and a module-level PRINT
\* of an element X(i), add an "undeclared array" error when X has no
\* declaration (X and X% name no FUNCTION and no built-in function).
C13_UndeclaredArrayAccess ==
    [][(pass = "body")
       => LET st == program.body[idx] IN
          /\ (st.k = "ArrayAssign" /\ ~Has(variables, st.name))
                => Reports("undeclared array", st.name)
          /\ st.k = "Print" =>
                \A i \in 1..Len(st.exprs) :
                    (/\ st.exprs[i].k = "FnCall"
                     /\ st.exprs[i].name \in {X, XI}
                     /\ ~Has(variables, st.exprs[i].name)
                     /\ ~Has(functions, st.exprs[i].name))
                        => Reports("undeclared array", st.exprs[i].name)]_vars

\* the function-call expressions a module-level statement evaluates first
\* (the family's calls stand at the top of an assignment or of a PRINT)
CallsOf(st) ==
    {e \in SeqRange(st.expr \o st.exprs) : e.k = "FnCall"}

RequiredScope ==
    [ExitFor |-> "ForLoop", ExitDo |-> "DoLoop", ExitSub |-> "Sub",
     ExitFunction |-> "Function"]
OutsideOf ==
    [ExitFor |-> "EXIT FOR outside of FOR loop", ExitDo |-> "EXIT DO outside of DO loop",
     ExitSub |-> "EXIT SUB outside of SUB",
     ExitFunction |-> "EXIT FUNCTION outside of FUNCTION"]

\* the EXIT statements of a body that stand outside of the scope they
\* require, in source order; scopes are the scopes pushed and not yet popped
\* at the start of the body, and a FOR or DO pushes its scope around its body
RECURSIVE ExitsOutside(_, _)
RECURSIVE ExitsOutsideClauses(_, _, _)
ExitsOutside(body, scopes) ==
    IF body = <<>> THEN <<>>
    ELSE LET st == Head(body)
             inner == CASE st.k = "For" -> scopes \cup {"ForLoop"}
                        [] st.k = "DoLoop" -> scopes \cup {"DoLoop"}
                        [] OTHER -> scopes
             here == IF st.k \in DOMAIN RequiredScope /\ RequiredScope[st.k] \notin scopes
                     THEN <<SemaError(OutsideOf[st.k], NoName)>> ELSE <<>>
         IN here \o ExitsOutside(st.body, inner)
                 \o ExitsOutsideClauses(st.clauses, 1, scopes)
                 \o ExitsOutside(st.else_body, scopes)
                 \o ExitsOutside(Tail(body), scopes)
ExitsOutsideClauses(cs, i, scopes) ==
    IF i > Len(cs) THEN <<>>
    ELSE ExitsOutside(cs[i].body, scopes) \o ExitsOutsideClauses(cs, i + 1, scopes)

IsOutsideError(e) == \E k \in DOMAIN OutsideOf : e.message = OutsideOf[k]

\* C15: checking a module-level statement, a SUB body or a FUNCTION body
\* adds one "outside of" error for each EXIT FOR, EXIT DO, EXIT SUB and EXIT
\* FUNCTION in it that has no enclosing FOR, DO, SUB or FUNCTION
\* respectively, at any depth, and none for the others.
C15_ExitScopes ==
    [][(pass \in {"body", "subs", "functions"})
       => SelectSeq(NewErrors, IsOutsideError)
            = CASE pass = "body" -> ExitsOutside(<<program.body[idx]>>, {"TopLevel"})
                [] pass = "subs" ->
                      ExitsOutside(program.subs[idx].body, {"TopLevel", "Sub"})
                [] pass = "functions" ->
                      ExitsOutside(program.functions[idx].body,
                                   {"TopLevel", "Function"})]_vars

\* EXIT FOR in a DO loop in a FOR loop of the module body has its scope under
\* the top of the stack: no error
C15_Witness ==
    /\ pass = "analyzed"
    /\ program = LabelProgram(ExitFor, <<"For", "DoLoop">>, "none", "body", <<>>)
    /\ errors = <<>>

(***************************************************************************)
(* Properties of compile and of the generated code                         *)
(***************************************************************************)

Compiled == pass \in {"compiled", "running", "exited", "panicked"}

\* a block that ends with its only terminator
WellFormed(bb) ==
    LET insts == codegen.module[bb].insts
    IN /\ insts # <<>>
       /\ IsTerminator(insts[Len(insts)])
       /\ \A j \in 1..(Len(insts) - 1) : ~IsTerminator(insts[j])

\* C2: in a module whose blocks all end with a terminator, a RETURN
\* executed while a GOSUB is pending (the switch of the dispatch block runs
\* with a non-empty call stack) continues at the return block of the GOSUB
\* entered last and not yet returned from.
C2_ReturnResumesCaller ==
    [][(/\ pass = "running"
        /\ \A bb \in 1..Len(codegen.module) : WellFormed(bb)
        /\ Terminator # <<>>
        /\ Terminator[1].op = "switch"
        /\ call_stack # <<>>)
       => pc' = call_stack[Len(call_stack)]]_vars

\* the dispatch block's terminator seen as a switch: a plain branch to the
\* default is a switch without cases
DispatchCases ==
    LET term == get_terminator(codegen, codegen.gosub_dispatch_bb[1])
    IN IF term = <<>> THEN <<>> ELSE term[1].cases

\* the block named "exit" of the function that holds block bb
ExitBlockOf(bb) ==
    CHOOSE e \in 1..Len(codegen.module) :
        /\ codegen.module[e].fn = codegen.module[bb].fn
        /\ codegen.module[e].name[1] = "exit"

\* C3: when has_gosub is true, after compile the switch of the dispatch
\* block has exactly one case for every registered return point and no
\* other case, and its default is the exit block of its function.
C3_DispatchClosure ==
    (Compiled /\ has_gosub) =>
        LET points == codegen.gosub_return_points
            d == codegen.gosub_dispatch_bb[1]
            term == get_terminator(codegen, d)
        IN /\ term # <<>>
           /\ \A i \in 1..Len(points) :
                 Cardinality({j \in 1..Len(DispatchCases) : DispatchCases[j] = points[i]}) = 1
           /\ \A j \in 1..Len(DispatchCases) :
                 \E i \in 1..Len(points) : points[i] = DispatchCases[j]
           /\ term[1].to = <<ExitBlockOf(d)>>

\* C4: after compile, every basic block of the module ends with exactly one
\* terminator and holds no instruction after it.
C4_EveryBlockTerminated ==
    Compiled => \A bb \in 1..Len(codegen.module) : WellFormed(bb)

\* the per-function state of the generator
PerFunctionState(g) ==
    [variables |-> g.variables, arrays |-> g.arrays, label_bbs |-> g.label_bbs,
     for_exit_stack |-> g.for_exit_stack, do_exit_stack |-> g.do_exit_stack,
     gosub_return_var |-> g.gosub_return_var,
     gosub_dispatch_bb |-> g.gosub_dispatch_bb,
     gosub_counter |-> g.gosub_counter,
     gosub_return_points |-> g.gosub_return_points,
     current_function |-> g.current_function,
     current_exit_bb |-> g.current_exit_bb]

\* the blocks with this name that the IR function f received
BlocksOf(f, name) ==
    {bb \in 1..Len(codegen.module) :
        codegen.module[bb].fn = f /\ codegen.module[bb].name = <<name>>}

\* C16: after compile (of a program that passed analysis), the IR function
\* qb_sub_<lowercased N> of every SUB N and the IR function qb_fn_<lowercased
\* N> of every FUNCTION N have exactly one entry block and one exit block.
C16_OneFunctionPerDefinition ==
    Compiled =>
        /\ \A i \in 1..Len(program.subs) :
              LET f == <<"qb_sub", to_lowercase(program.subs[i].name)>> IN
              Cardinality(BlocksOf(f, "entry")) = 1 /\ Cardinality(BlocksOf(f, "exit")) = 1
        /\ \A i \in 1..Len(program.functions) :
              LET f == <<"qb_fn", to_lowercase(program.functions[i].name)>> IN
              Cardinality(BlocksOf(f, "entry")) = 1 /\ Cardinality(BlocksOf(f, "exit")) = 1

\* C5: lowering a SUB or FUNCTION body leaves every component of the
\* per-function generator state as it was before the body.
C5_BodyRestoresState ==
    [][(pass \in {"sub_bodies", "function_bodies"})
          => (PerFunctionState(codegen') = PerFunctionState(codegen))]_vars

(***************************************************************************)
(* Properties of parse and of main                                         *)
(***************************************************************************)

\* parse returned a Program: main is past the parse, and if it exited with
\* a failure then because of the errors of analyze
ParseSucceeded ==
    /\ pass \notin {"lex", "parse"}
    /\ pass = "failed" => errors # <<>>

\* the tokens that are an integer literal at the start of a line
LineNumbers ==
    {i \in 1..Len(tokens) :
        tokens[i].k = "IntLiteral" /\ (i = 1 \/ tokens[i - 1].k = "Newline")}

\* C17: for every line that starts with an integer literal, alone on the
\* line or followed by a statement, the parsed program has a Label
\* statement named by the literal's decimal text, and analysis reports no
\* undefined label of that name.
C17_NumericLabels ==
    ParseSucceeded =>
        \A i \in LineNumbers :
            /\ \E j \in 1..Len(ProgramStatements(program)) :
                  ProgramStatements(program)[j] = Label(ToString(tokens[i].n))
            /\ pass = "analyzed" =>
                  \A j \in 1..Len(errors) :
                      ~(/\ errors[j].message = "undefined label"
                        /\ errors[j].name = Name(ToString(tokens[i].n), ""))

\* the levels of the binary operators, loosest first
Level(op) ==
    CASE op \in {"Or", "Xor"} -> 1
      [] op = "And" -> 2
      [] op \in {"Eq", "Neq", "Lt", "Gt", "Le", "Ge"} -> 3
      [] op \in {"Add", "Sub"} -> 4
      [] op \in {"Mul", "Div", "IntDiv", "Mod"} -> 5
      [] OTHER -> 6

\* a tree of an expression without parentheses follows the levels: the left
\* operand of a binary operator is no looser operator, and an operator of
\* the same level only if that level groups left to right; the right
\* operand is a tighter operator, or ^ under ^; the operand of a prefix
\* operator is no binary operator
RECURSIVE Grouped(_)
Grouped(e) ==
    CASE e.k = "BinaryOp" ->
            /\ e.args[1].k = "BinaryOp" =>
                  \/ Level(e.args[1].op) > Level(e.op)
                  \/ Level(e.args[1].op) = Level(e.op) /\ e.op # "Pow"
            /\ e.args[2].k = "BinaryOp" =>
                  \/ Level(e.args[2].op) > Level(e.op)
                  \/ e.args[2].op = "Pow" /\ e.op = "Pow"
            /\ Grouped(e.args[1])
            /\ Grouped(e.args[2])
      [] e.k = "UnaryOp" -> e.args[1].k # "BinaryOp" /\ Grouped(e.args[1])
      [] OTHER -> TRUE

OperatorToken(op) ==
    CASE op = "Add" -> "Plus"  [] op = "Sub" -> "Minus" [] op = "Mul" -> "Star"
      [] op = "Div" -> "Slash" [] op = "IntDiv" -> "Backslash"
      [] op = "Pow" -> "Caret" [] op = "Neg" -> "Minus"
      [] OTHER -> op

\* the operands and operators of a tree from left to right
RECURSIVE Yield(_)
Yield(e) ==
    CASE e.k = "BinaryOp" ->
            Yield(e.args[1]) \o <<OperatorToken(e.op)>> \o Yield(e.args[2])
      [] e.k = "UnaryOp" -> <<OperatorToken(e.op)>> \o Yield(e.args[1])
      [] e.k = "Variable" -> <<e.name.base>>
      [] OTHER -> <<e.k>>

TokenText(t) == IF t.k \in IdentKinds THEN t.name.base ELSE t.k

\* the source is one line `variable = expression`, the expression without
\* parentheses, calls and interpolated strings
IsPlainAssignment ==
    /\ Len(tokens) >= 4
    /\ tokens[1].k \in IdentKinds
    /\ tokens[2].k = "Eq"
    /\ \A i \in 1..Len(tokens) :
          /\ tokens[i].k \notin {"LParen", "InterpolatedString"}
          /\ tokens[i].k = "Newline" <=> i = Len(tokens)

\* C18: the tree parsed for an expression has the expression's operands and
\* operators in their order, and groups them by the binding-power table:
\* tighter levels below looser ones, equal levels to the left except ^,
\* which groups to the right, and a prefix - or NOT directly on its operand.
C18_BindingPowers ==
    (ParseSucceeded /\ IsPlainAssignment) =>
        /\ Len(program.body) = 1
        /\ program.body[1].k = "Let"
        /\ Grouped(program.body[1].expr[1])
        /\ Yield(program.body[1].expr[1])
              = [i \in 1..(Len(tokens) - 3) |-> TokenText(tokens[i + 2])]

\* `x = - A ^ B ^ C` has been parsed as (-A) ^ (B ^ C)
C18_Witness ==
    /\ ParseSucceeded
    /\ IsPlainAssignment
    /\ program.body[1].expr[1]
          = BinaryOp("Pow", UnaryOp("Neg", Variable(Name("A", ""))),
                     BinaryOp("Pow", Variable(Name("B", "")),
                              Variable(Name("C", ""))))

\* the source is one line PRINT $"..." and parse returned its Program
PrintsTemplate ==
    /\ ParseSucceeded
    /\ Len(tokens) = 3
    /\ tokens[1].k = "Print"
    /\ tokens[2].k = "InterpolatedString"

\* character i of template t is inside a placeholder, after its {
Inside(t, i) ==
    \E j \in 1..(i - 1) :
        IsBrace(t[j], "{") /\ \A m \in (j + 1)..i : ~IsBrace(t[m], "}")
\* character i is the { that opens, the } that closes a placeholder
Opens(t, i) == IsBrace(t[i], "{") /\ ~Inside(t, i)
Closes(t, i) ==
    /\ IsBrace(t[i], "}")
    /\ \E j \in 1..(i - 1) :
          IsBrace(t[j], "{") /\ \A m \in (j + 1)..(i - 1) : ~IsBrace(t[m], "}")
IsTextAt(t, i) == ~Inside(t, i) /\ ~Opens(t, i) /\ ~Closes(t, i)

Placeholders(t) == {i \in 1..Len(t) : Opens(t, i)}
\* the first characters of the maximal runs of text
TextRuns(t) ==
    {i \in 1..Len(t) : IsTextAt(t, i) /\ (i = 1 \/ ~IsTextAt(t, i - 1))}

RECURSIVE RunText(_, _)
RunText(t, i) ==
    IF i > Len(t) \/ ~IsTextAt(t, i) THEN <<>>
    ELSE <<t[i].text>> \o RunText(t, i + 1)

RECURSIVE Ascending(_)
Ascending(S) ==
    IF S = {} THEN <<>>
    ELSE LET least == CHOOSE a \in S : \A b \in S : a <= b
         IN <<least>> \o Ascending(S \ {least})

\* the operands of a chain of + that groups to the left, and its + nodes
RECURSIVE Parts(_)
Parts(e) ==
    IF e.k = "BinaryOp" /\ e.op = "Add"
    THEN Parts(e.args[1]) \o <<e.args[2]>>
    ELSE <<e>>
RECURSIVE Concatenations(_)
Concatenations(e) ==
    IF e.k = "BinaryOp" /\ e.op = "Add"
    THEN 1 + Concatenations(e.args[1]) + Concatenations(e.args[2])
    ELSE 0

IsStrCall(e) == e.k = "FnCall" /\ e.name = Name("STR", "$") /\ Len(e.args) = 1
IsStringLiteral(e) == e.k = "StringLiteral"

Stage(p) ==
    CASE p = "lex" -> 1
      [] p = "parse" -> 2
      [] p \in {"types", "fields", "signatures", "labels", "body", "subs",
                "functions", "targets", "analyzed"} -> 3
      [] p \in {"sub_bodies", "function_bodies", "compiled"} -> 4
      [] p \in {"dumped", "written"} -> 5
      [] OTHER -> 6

\* the process has reported and exited with status 1
ExitedWithFailure == pass = "failed" /\ diagnostics # <<>>

\* C20: main goes through lex, parse, analyze and code generation in this
\* order, one stage after the other; it enters code generation, and from
\* there the output of an object file, only from a finished analysis
\* without errors of a program that tokenize and parse returned; and after
\* a failure of tokenize or of parse, or an analysis with errors, its next
\* step is to report and exit with a failure status.
C20_StagesInOrder ==
    [][/\ Stage(pass') >= Stage(pass)
       /\ Stage(pass') <= 5 => Stage(pass') <= Stage(pass) + 1
       /\ (Stage(pass') \in {4, 5} /\ Stage(pass) # Stage(pass')) =>
             /\ tokenize(source).ok
             /\ tokens = tokenize(source).tokens
             /\ parse(tokens).ok
             /\ program = parse(tokens).v
             /\ errors = <<>>
             /\ pass \in {"analyzed", "compiled"}
       /\ (pass = "lex" /\ ~tokenize(source).ok) => ExitedWithFailure'
       /\ (pass = "parse" /\ ~parse(tokens).ok) => ExitedWithFailure'
       /\ (pass = "analyzed" /\ errors # <<>>) => ExitedWithFailure'
       /\ pass' = "failed" =>
             \/ pass = "lex" /\ ~tokenize(source).ok
             \/ pass = "parse" /\ ~parse(tokens).ok
             \/ pass = "analyzed" /\ errors # <<>>]_vars

\* a Build of a text that tokenize and parse accepted and in which analyze
\* found an error has exited with a failure, and no code was generated
C20_Witness ==
    /\ ExitedWithFailure
    /\ command = "Build"
    /\ tokens # <<>>
    /\ program.body # <<>>
    /\ errors # <<>>
    /\ codegen = NewCodegen

(***************************************************************************)
(* Properties of resolve_includes                                          *)
(***************************************************************************)

\* the files whose expansion has begun and has not returned
BeingExpanded == {frames[i].canonical : i \in 1..Len(frames)}

\* resolve_includes is about to be called: by main, or at a directive
Calls ==
    /\ pass = "include"
    /\ \/ frames = <<>>
       \/ /\ Top.i <= Len(Top.lines)
          /\ parse_include_directive(Top.lines[Top.i]) # <<>>

\* the path it is called with
Reached ==
    IF frames = <<>> THEN Root
    ELSE join(parent(Top.path), parse_include_directive(Top.lines[Top.i])[1])

Circular == <<"failed to read", "circular INCLUDE detected">>

\* the text of a file with the text of every file it includes in place of
\* the directive, to the given depth of inclusion
RECURSIVE Inlined(_, _, _)
InlinedLine(fs, path, line, depth) ==
    IF parse_include_directive(line) = <<>> THEN Line(line)
    ELSE Included(<<>>, Inlined(fs, canonicalize(fs,
             join(parent(path), parse_include_directive(line)[1]))[1], depth - 1))
Inlined(fs, path, depth) ==
    IF depth = 0 THEN <<>>
    ELSE Join([i \in 1..Len(lines(fs[path])) |->
                   InlinedLine(fs, path, lines(fs[path])[i], depth)])

\* the visited set is the set of the files being expanded, and the text
\* returned to main is the text of the file main named, fully inlined
IncludesInlined ==
    /\ pass = "include" => visited = BeingExpanded
    /\ pass = "lex" =>
          /\ visited = {}
          /\ source = Inlined(files, Root, Cardinality(DOMAIN files))

\* a call fails with the circular INCLUDE error exactly if the file it
\* names is being expanded, and with another error only if the path names
\* no file; no other step fails; a return takes its file out of visited
IncludeStep ==
    /\ Calls =>
          /\ (pass' = "failed" /\ diagnostics' = Circular) <=>
                (/\ canonicalize(files, Reached) # <<>>
                 /\ canonicalize(files, Reached)[1] \in BeingExpanded)
          /\ (pass' = "failed" /\ diagnostics' # Circular) =>
                (\/ canonicalize(files, Reached) = <<>>
                 \/ ~IsFile(files, canonicalize(files, Reached)[1]))
    /\ (pass = "include" /\ ~Calls) =>
          /\ pass' # "failed"
          /\ Top.i > Len(Top.lines) => Top.canonical \notin visited'

MainLowering == compile_entry_start(NewCodegen, program, SA)

\* the Codegen as compile_sub_body / compile_function_body lowers the body
\* of a definition declared as func
DefLowering(def, func) ==
    cg_collect_labels(compile_params(take_state(enter_body(codegen, func), func),
                                     def.params, 1),
                      def.body, func)

\* the jump is lowered to a branch to the block of its label
BranchesToLabel(g, st) ==
    /\ Has(g.label_bbs, st.target)
    /\ st.k = "Gosub" => g.gosub_return_var # <<>>

JumpsBranchToLabels(g, body) ==
    \A i \in 1..Len(Flatten(body)) :
        IsJump(Flatten(body)[i]) => BranchesToLabel(g, Flatten(body)[i])

\* C23: in a program that passed analysis, every GOTO and GOSUB of the body
\* about to be lowered has the block of its target in the label-block map
\* of the function being lowered, wherever the label is declared.
C23_JumpsHaveBlocks ==
    /\ (pass = "analyzed" /\ errors = <<>>) =>
          JumpsBranchToLabels(MainLowering, program.body)
    /\ pass = "sub_bodies" =>
          JumpsBranchToLabels(
              DefLowering(program.subs[idx], codegen.user_functions[program.subs[idx].name]),
              program.subs[idx].body)
    /\ pass = "function_bodies" =>
          JumpsBranchToLabels(
              DefLowering(program.functions[idx],
                          codegen.user_functions[program.functions[idx].name]),
              program.functions[idx].body)

(***************************************************************************)
(* Properties of the lowering of IF                                        *)
(***************************************************************************)

\* the Codegen after the first k statements of the module body
LoweredTo(k) == compile_body(MainLowering, SubSeq(program.body, 1, k))

\* statement k of the module body is an IF, and it is lowered
IfLowered(k) == program.body[k].k = "If" /\ ~Terminated(LoweredTo(k - 1))

\* its merge block
MergeOf(k) == NextBlock(compile_condition(LoweredTo(k - 1), program.body[k].expr[1])) + 1

\* a conditional branch with its false edge to bb
HasFalseEdgeTo(g, bb) ==
    \E b \in 1..Len(g.module) : \E i \in 1..Len(g.module[b].insts) :
        g.module[b].insts[i].op = "condbr" /\ g.module[b].insts[i].to[2] = bb

\* C24: after an IF of the module body is lowered, the builder is at the
\* IF's merge block and the merge block holds no instruction; a test has
\* its false edge to the merge block exactly if the IF has no ELSE.
C24_IfContinuesAtMerge ==
    Compiled =>
        \A k \in 1..Len(program.body) :
            IfLowered(k) =>
                /\ LoweredTo(k).module[MergeOf(k)].name = <<"if.merge">>
                /\ LoweredTo(k).insert_block = MergeOf(k)
                /\ LoweredTo(k).module[MergeOf(k)].insts = <<>>
                /\ HasFalseEdgeTo(LoweredTo(k), MergeOf(k))
                      <=> program.body[k].else_body = <<>>

(***************************************************************************)
(* Properties of the lowering of EXIT FOR and EXIT DO                      *)
(***************************************************************************)

\* the bodies of a statement, in the order in which they are lowered
Bodies(st) ==
    <<st.body>> \o [i \in 1..Len(st.clauses) |-> st.clauses[i].body] \o <<st.else_body>>

\* the EXITs of a body in the order of the text, each with the number of
\* the innermost loop around it (0: none), the loops of the kind being
\* numbered from 1 in the order of the text; acc holds the loops and the
\* EXITs met so far
RECURSIVE ExitsOf(_, _, _, _, _)
RECURSIVE ExitsOfBodies(_, _, _, _, _)
ExitsOf(body, loop, exit, enclosing, acc) ==
    IF body = <<>> THEN acc
    ELSE ExitsOf(Tail(body), loop, exit, enclosing,
            IF Head(body).k = exit THEN [acc EXCEPT !.to = Append(@, enclosing)]
            ELSE IF Head(body).k = loop
            THEN ExitsOfBodies(Bodies(Head(body)), loop, exit, acc.n + 1,
                               [acc EXCEPT !.n = @ + 1])
            ELSE ExitsOfBodies(Bodies(Head(body)), loop, exit, enclosing, acc))
ExitsOfBodies(bodies, loop, exit, enclosing, acc) ==
    IF bodies = <<>> THEN acc
    ELSE ExitsOfBodies(Tail(bodies), loop, exit, enclosing,
                       ExitsOf(Head(bodies), loop, exit, enclosing, acc))

\* the blocks of a function with a name, in the order of their creation
NamedBlocks(g, func, name) ==
    SelectSeq([b \in 1..Len(g.module) |-> b],
              LAMBDA b : g.module[b].fn = func /\ g.module[b].name = name)

\* the number of unconditional branches to a block
BranchesTo(g, bb) ==
    Cardinality(UNION {{<<b, i>> : i \in {j \in 1..Len(g.module[b].insts) :
                                              /\ g.module[b].insts[j].op = "br"
                                              /\ g.module[b].insts[j].to = <<bb>>}} :
                       b \in 1..Len(g.module)})

\* every EXIT of the body branches to the after-block of the innermost
\* loop of its kind around it
ExitsLeaveLoops(g, func, body, loop, exit, after) ==
    LET expected == ExitsOf(body, loop, exit, 0, [n |-> 0, to |-> <<>>])
        blocks == NamedBlocks(g, func, <<after>>)
    IN /\ Len(blocks) = expected.n
       /\ \A j \in 1..Len(blocks) :
             BranchesTo(g, blocks[j]) =
                Cardinality({e \in 1..Len(expected.to) : expected.to[e] = j})

BodyExitsLeaveLoops(g, func, body) ==
    /\ ExitsLeaveLoops(g, func, body, "For", "ExitFor", "for.after")
    /\ ExitsLeaveLoops(g, func, body, "DoLoop", "ExitDo", "do.after")

StoresTo(g, bb, p, slot) ==
    /\ g.module[bb].insts[p].op \in {"store", "store_return_idx"}
    /\ g.module[bb].insts[p].slot = slot

\* the block stores to the slot before its instruction p
StoredBefore(g, bb, p, slot) == \E q \in 1..(p - 1) : StoresTo(g, bb, q, slot)

\* the blocks a block's terminators name
Successors(g, bb) ==
    UNION {{i.to[k] : k \in 1..Len(i.to)} \cup {i.cases[k][2] : k \in 1..Len(i.cases)} :
              i \in {g.module[bb].insts[p] : p \in 1..Len(g.module[bb].insts)}}

\* the first block of the function that holds the block
EntryOf(g, bb) ==
    CHOOSE e \in 1..Len(g.module) :
        /\ g.module[e].fn = g.module[bb].fn
        /\ \A o \in 1..(e - 1) : g.module[o].fn # g.module[bb].fn

\* the blocks control can enter, from the blocks of R, with no store to the
\* slot executed yet
RECURSIVE EnteredUnset(_, _, _)
EnteredUnset(g, slot, R) ==
    LET more == UNION {Successors(g, bb) :
                          bb \in {r \in R : ~StoredBefore(g, r, Len(g.module[r].insts) + 1,
                                                          slot)}}
    IN IF more \subseteq R THEN R ELSE EnteredUnset(g, slot, R \cup more)

\* no load of a slot can execute before a store to the slot
LoadsInitialized(g) ==
    \A bb \in 1..Len(g.module) : \A p \in 1..Len(g.module[bb].insts) :
        LET i == g.module[bb].insts[p] IN
        (i.op = "load" /\ i.slot # <<>>)
            => \/ StoredBefore(g, bb, p, i.slot)
               \/ bb \notin EnteredUnset(g, i.slot, {EntryOf(g, bb)})

\* C26: whatever has been compiled, in the module body or in a SUB or
\* FUNCTION body, no load of a scalar's slot can execute before a store to it
C26_SlotsInitialized == LoadsInitialized(codegen)

(***************************************************************************)
(* C27: the instructions of one IR function name only blocks and slots of  *)
(* that function                                                           *)
(***************************************************************************)

\* the blocks and the slot an instruction names belong to the function
StaysIn(g, i, func) ==
    /\ \A k \in 1..Len(i.to) : g.module[i.to[k]].fn = func
    /\ \A k \in 1..Len(i.cases) : g.module[i.cases[k][2]].fn = func
    /\ i.slot # <<>> => i.slot[1] = func

\* every instruction of every block stays in the block's function
FunctionsAreClosed(g) ==
    \A bb \in 1..Len(g.module) : \A p \in 1..Len(g.module[bb].insts) :
        StaysIn(g, g.module[bb].insts[p], g.module[bb].fn)

\* C27: whatever has been compiled, every branch, switch case, load and
\* store of a function names blocks and slots of that same function
C27_FunctionsAreClosed == FunctionsAreClosed(codegen)

(***************************************************************************)
(* C28: the storage type the generator infers for an expression is the     *)
(* storage type of the QBType the analyzer computed for it                 *)
(***************************************************************************)

\* the expression the last statement of the module body prints
Printed == program.body[Len(program.body)].exprs[1]

\* every call that prints calls the runtime function of the storage type of
\* the type check_expr returns for the printed expression
PrintsAsAnalyzed(g) ==
    \A bb \in 1..Len(g.module) : \A p \in 1..Len(g.module[bb].insts) :
        g.module[bb].insts[p].callee # ""
            => g.module[bb].insts[p].callee
                   = rt_print(VarTypeOf(check_expr(SA, Printed).t))

\* C28: once a program that prints one expression is compiled, the call that
\* prints it is the one of the type the analyzer computed for the expression
C28_InferredTypeIsAnalyzedType ==
    (/\ codegen.module # <<>>
     /\ program.body # <<>>
     /\ program.body[Len(program.body)].k = "Print")
        => PrintsAsAnalyzed(codegen)

(***************************************************************************)
(* C29: an assignment to a string array element evaluates its right-hand   *)
(* side before it releases the element's previous string                   *)
(***************************************************************************)

\* instruction q of the block releases an element of an array, and a later
\* instruction p, not after the store of the assignment, loads an element of
\* that array
ReadAfterRelease(g, bb, q, p) ==
    LET insts == g.module[bb].insts IN
    /\ q < p
    /\ insts[q].callee = "rb_string_release"
    /\ insts[p].op = "load"
    /\ insts[p].elem = insts[q].elem
    /\ \A r \in (q + 1)..(p - 1) : insts[r].op # "store" \/ insts[r].elem # insts[q].elem

\* no element of an array is read between the release of the assigned
\* element's previous string and the store of the new one
ReleasesAfterReads(g) ==
    \A bb \in 1..Len(g.module) :
        \A q \in 1..Len(g.module[bb].insts) : \A p \in 1..Len(g.module[bb].insts) :
            ~ReadAfterRelease(g, bb, q, p)

\* C29: in whatever has been compiled, the code of an assignment to a string
\* array element reads no element of the array after it has passed the
\* element's previous string to rb_string_release
C29_RightSideBeforeRelease == ReleasesAfterReads(codegen)

(***************************************************************************)
(* C30: parse terminates: the cursor never moves back and never passes the *)
(* end of the tokens, and an iteration of a parsing loop consumes a token, *)
(* leaves its loop or returns a parse error                                *)
(***************************************************************************)

\* the cursor is within the token vector
CursorInRange == cursor.pos <= Len(tokens)

\* an iteration: the cursor does not move back, and it moves on, or a loop
\* is left, or parse returns an error
IterationProgress ==
    /\ cursor'.pos >= cursor.pos
    /\ \/ cursor'.pos > cursor.pos
       \/ Len(cursor'.loops) < Len(cursor.loops)
       \/ cursor'.outcome = "Err"

\* C30: on every token vector the cursor stays within the tokens, every
\* iteration of every loop makes progress, and parse returns
C30_ParseTerminates ==
    /\ []CursorInRange
    /\ [][IterationProgress]_vars
    /\ <>(cursor.outcome # "")

\* parse returned Ok at the end of WHILE 1 / PRINT X;,X / WEND: the loop of
\* parse_program, of parse_block and of the PRINT list have run
C30_Witness ==
    /\ cursor.outcome = "Ok"
    /\ cursor.pos = Len(tokens)
    /\ Len(tokens) = 11
    /\ tokens[1].k = "While"
    /\ tokens[4].k = "Print"
    /\ tokens[10].k = "Wend"

====
